---- MODULE Spec2Model ----
(***************************************************************************)
(* Quiz generation of the flashcards backend: the HTTP handler             *)
(* QuizHandler.GenerateQuiz, the service QuizService.GenerateQuiz with its *)
(* helpers (getNotesContent, extractDifficulty, extractQuestionType,       *)
(* generateQuizWithLLM, parseLLMResponse) and NoteService: the reads the   *)
(* quiz service makes, and CreateNote, UpdateNote and DeleteNote, which    *)
(* are served while a quiz request is in flight and between two requests.  *)
(*                                                                         *)
(* Text is a sequence of one-character strings, so that ToLower, Contains, *)
(* Index and LastIndex are computed position by position as the Go         *)
(* standard library computes them.  A raw model response is a sequence of  *)
(* tokens: the characters "{", "}", ",", " ", "x" and brace-free JSON      *)
(* members (see Members).                                                  *)
(***************************************************************************)
EXTENDS Integers, Sequences, FiniteSets, TLC

VARIABLES
    pc,            \* position of the request in flight
    via,           \* "http": through QuizHandler; "direct": QuizService called directly
    conversation,  \* the caller's conversation (req.Conversation)
    noteIds,       \* the caller's note identifiers (req.NoteIds)
    repo,          \* the note repository: notes in GetAllNotes order
    nextID,        \* the identifier the repository gives the next created note
    notes,         \* getNotesContent: the notes resolved so far
    idx,           \* getNotesContent: position of the range loop over noteIds
    trace,         \* what this request has done so far, in order
    prompt,        \* generateQuizWithLLM: the prompt handed to the model
    completion,    \* generateQuizWithLLM: the model's raw completion
    result,        \* what the caller got back
    now,           \* wall clock, in ticks of 1/TicksPerSecond second
    issued,        \* set of the identifiers of the question records produced so far
    inferText,     \* parameter inference alone: the user text
    inferOut,      \* parameter inference alone: the inferred parameters
    extractIn,     \* extraction alone: the raw response in its three parts, and noteIds
    extractOut     \* extraction alone: what parseLLMResponse returned

vars == << pc, via, conversation, noteIds, repo, nextID, notes, idx, trace, prompt,
           completion, result, now, issued, inferText, inferOut,
           extractIn, extractOut >>

pipeVars == << pc, via, conversation, noteIds, repo, nextID, notes, idx, trace, prompt,
               completion, result, now, issued >>

inferVars == << inferText, inferOut >>

extractVars == << extractIn, extractOut >>

----------------------------------------------------------------------------
(* Bounds *)

\* turns in a request's conversation
MaxConv == 2
\* identifiers in a request's noteIds
MaxNoteIds == 2
\* clock ticks over the whole run
MaxTicks == 2
\* clock resolution finer than time.Now().Unix()
TicksPerSecond == 2
\* chunks concatenated into a user text (inference alone)
MaxChunks == 2
\* chunks of text before and after the payload (extraction alone)
MaxNoise == 2

----------------------------------------------------------------------------
(* strings *)

UpperChars == << "A","B","C","D","E","F","G","H","I","J","K","L","M",
                 "N","O","P","Q","R","S","T","U","V","W","X","Y","Z" >>
LowerChars == << "a","b","c","d","e","f","g","h","i","j","k","l","m",
                 "n","o","p","q","r","s","t","u","v","w","x","y","z" >>

\* unicode.ToLower outside ASCII: every character that has a lower-case
\* mapping (Unicode 14.0) and, at the same position of UnicodeLower, the
\* character it maps to.  A character that a string of this module cannot
\* hold, or that would break its line, is written by its code point, as in
\* "U+0130" (which lowers to "i").
UnicodeUpper ==
    <<
       "À", "Á", "Â", "Ã", "Ä", "Å", "Æ", "Ç", "È", "É",
       "Ê", "Ë", "Ì", "Í", "Î", "Ï", "Ð", "Ñ", "Ò", "Ó",
       "Ô", "Õ", "Ö", "Ø", "Ù", "Ú", "Û", "Ü", "Ý", "Þ",
       "U+0100", "U+0102", "U+0104", "U+0106", "U+0108", "U+010A", "U+010C", "U+010E", "U+0110", "U+0112",
       "U+0114", "U+0116", "U+0118", "U+011A", "U+011C", "U+011E", "U+0120", "U+0122", "U+0124", "U+0126",
       "U+0128", "U+012A", "U+012C", "U+012E", "U+0130", "U+0132", "U+0134", "U+0136", "U+0139", "U+013B",
       "U+013D", "U+013F", "U+0141", "U+0143", "U+0145", "U+0147", "U+014A", "U+014C", "U+014E", "U+0150",
       "U+0152", "U+0154", "U+0156", "U+0158", "U+015A", "U+015C", "U+015E", "U+0160", "U+0162", "U+0164",
       "U+0166", "U+0168", "U+016A", "U+016C", "U+016E", "U+0170", "U+0172", "U+0174", "U+0176", "U+0178",
       "U+0179", "U+017B", "U+017D", "Ɓ", "Ƃ", "Ƅ", "Ɔ", "Ƈ", "Ɖ", "Ɗ",
       "Ƌ", "Ǝ", "Ə", "Ɛ", "Ƒ", "Ɠ", "Ɣ", "Ɩ", "Ɨ", "Ƙ",
       "Ɯ", "Ɲ", "Ɵ", "Ơ", "Ƣ", "Ƥ", "Ʀ", "Ƨ", "Ʃ", "Ƭ",
       "Ʈ", "Ư", "Ʊ", "Ʋ", "Ƴ", "Ƶ", "Ʒ", "Ƹ", "Ƽ", "Ǆ",
       "ǅ", "Ǉ", "ǈ", "Ǌ", "ǋ", "Ǎ", "Ǐ", "Ǒ", "Ǔ", "Ǖ",
       "Ǘ", "Ǚ", "Ǜ", "Ǟ", "Ǡ", "Ǣ", "Ǥ", "Ǧ", "Ǩ", "Ǫ",
       "Ǭ", "Ǯ", "Ǳ", "ǲ", "Ǵ", "Ƕ", "Ƿ", "Ǹ", "Ǻ", "Ǽ",
       "Ǿ", "U+0200", "U+0202", "U+0204", "U+0206", "U+0208", "U+020A", "U+020C", "U+020E", "U+0210",
       "U+0212", "U+0214", "U+0216", "U+0218", "U+021A", "U+021C", "U+021E", "U+0220", "U+0222", "U+0224",
       "U+0226", "U+0228", "U+022A", "U+022C", "U+022E", "U+0230", "U+0232", "U+023A", "U+023B", "U+023D",
       "U+023E", "U+0241", "U+0243", "U+0244", "U+0245", "U+0246", "U+0248", "U+024A", "U+024C", "U+024E",
       "U+0370", "U+0372", "U+0376", "U+037F", "Ά", "Έ", "Ή", "Ί", "Ό", "Ύ",
       "Ώ", "Α", "Β", "Γ", "Δ", "Ε", "Ζ", "Η", "Θ", "Ι",
       "Κ", "Λ", "Μ", "Ν", "Ξ", "Ο", "Π", "Ρ", "Σ", "Τ",
       "Υ", "Φ", "Χ", "Ψ", "Ω", "Ϊ", "Ϋ", "Ϗ", "Ϙ", "Ϛ",
       "Ϝ", "Ϟ", "Ϡ", "Ϣ", "Ϥ", "Ϧ", "Ϩ", "Ϫ", "Ϭ", "Ϯ",
       "ϴ", "Ϸ", "Ϲ", "Ϻ", "Ͻ", "Ͼ", "Ͽ", "U+0400", "U+0401", "U+0402",
       "U+0403", "U+0404", "U+0405", "U+0406", "U+0407", "U+0408", "U+0409", "U+040A", "U+040B", "U+040C",
       "U+040D", "U+040E", "U+040F", "U+0410", "U+0411", "U+0412", "U+0413", "U+0414", "U+0415", "U+0416",
       "U+0417", "U+0418", "U+0419", "U+041A", "U+041B", "U+041C", "U+041D", "U+041E", "U+041F", "U+0420",
       "U+0421", "U+0422", "U+0423", "U+0424", "U+0425", "U+0426", "U+0427", "U+0428", "U+0429", "U+042A",
       "U+042B", "U+042C", "U+042D", "U+042E", "U+042F", "U+0460", "U+0462", "U+0464", "U+0466", "U+0468",
       "U+046A", "U+046C", "U+046E", "U+0470", "U+0472", "U+0474", "U+0476", "U+0478", "U+047A", "U+047C",
       "U+047E", "Ҁ", "Ҋ", "Ҍ", "Ҏ", "Ґ", "Ғ", "Ҕ", "Җ", "Ҙ",
       "Қ", "Ҝ", "Ҟ", "Ҡ", "Ң", "Ҥ", "Ҧ", "Ҩ", "Ҫ", "Ҭ",
       "Ү", "Ұ", "Ҳ", "Ҵ", "Ҷ", "Ҹ", "Һ", "Ҽ", "Ҿ", "Ӏ",
       "Ӂ", "Ӄ", "Ӆ", "Ӈ", "Ӊ", "Ӌ", "Ӎ", "Ӑ", "Ӓ", "Ӕ",
       "Ӗ", "Ә", "Ӛ", "Ӝ", "Ӟ", "Ӡ", "Ӣ", "Ӥ", "Ӧ", "Ө",
       "Ӫ", "Ӭ", "Ӯ", "Ӱ", "Ӳ", "Ӵ", "Ӷ", "Ӹ", "Ӻ", "Ӽ",
       "Ӿ", "U+0500", "U+0502", "U+0504", "U+0506", "U+0508", "U+050A", "U+050C", "U+050E", "U+0510",
       "U+0512", "U+0514", "U+0516", "U+0518", "U+051A", "U+051C", "U+051E", "U+0520", "U+0522", "U+0524",
       "U+0526", "U+0528", "U+052A", "U+052C", "U+052E", "U+0531", "U+0532", "U+0533", "U+0534", "U+0535",
       "U+0536", "U+0537", "U+0538", "U+0539", "U+053A", "U+053B", "U+053C", "U+053D", "U+053E", "U+053F",
       "U+0540", "U+0541", "U+0542", "U+0543", "U+0544", "U+0545", "U+0546", "U+0547", "U+0548", "U+0549",
       "U+054A", "U+054B", "U+054C", "U+054D", "U+054E", "U+054F", "U+0550", "U+0551", "U+0552", "U+0553",
       "U+0554", "U+0555", "U+0556", "Ⴀ", "Ⴁ", "Ⴂ", "Ⴃ", "Ⴄ", "Ⴅ", "Ⴆ",
       "Ⴇ", "Ⴈ", "Ⴉ", "Ⴊ", "Ⴋ", "Ⴌ", "Ⴍ", "Ⴎ", "Ⴏ", "Ⴐ",
       "Ⴑ", "Ⴒ", "Ⴓ", "Ⴔ", "Ⴕ", "Ⴖ", "Ⴗ", "Ⴘ", "Ⴙ", "Ⴚ",
       "Ⴛ", "Ⴜ", "Ⴝ", "Ⴞ", "Ⴟ", "Ⴠ", "Ⴡ", "Ⴢ", "Ⴣ", "Ⴤ",
       "Ⴥ", "Ⴧ", "Ⴭ", "Ꭰ", "Ꭱ", "Ꭲ", "Ꭳ", "Ꭴ", "Ꭵ", "Ꭶ",
       "Ꭷ", "Ꭸ", "Ꭹ", "Ꭺ", "Ꭻ", "Ꭼ", "Ꭽ", "Ꭾ", "Ꭿ", "Ꮀ",
       "Ꮁ", "Ꮂ", "Ꮃ", "Ꮄ", "Ꮅ", "Ꮆ", "Ꮇ", "Ꮈ", "Ꮉ", "Ꮊ",
       "Ꮋ", "Ꮌ", "Ꮍ", "Ꮎ", "Ꮏ", "Ꮐ", "Ꮑ", "Ꮒ", "Ꮓ", "Ꮔ",
       "Ꮕ", "Ꮖ", "Ꮗ", "Ꮘ", "Ꮙ", "Ꮚ", "Ꮛ", "Ꮜ", "Ꮝ", "Ꮞ",
       "Ꮟ", "Ꮠ", "Ꮡ", "Ꮢ", "Ꮣ", "Ꮤ", "Ꮥ", "Ꮦ", "Ꮧ", "Ꮨ",
       "Ꮩ", "Ꮪ", "Ꮫ", "Ꮬ", "Ꮭ", "Ꮮ", "Ꮯ", "Ꮰ", "Ꮱ", "Ꮲ",
       "Ꮳ", "Ꮴ", "Ꮵ", "Ꮶ", "Ꮷ", "Ꮸ", "Ꮹ", "Ꮺ", "Ꮻ", "Ꮼ",
       "Ꮽ", "Ꮾ", "Ꮿ", "Ᏸ", "Ᏹ", "Ᏺ", "Ᏻ", "Ᏼ", "Ᏽ", "Ა",
       "Ბ", "Გ", "Დ", "Ე", "Ვ", "Ზ", "Თ", "Ი", "Კ", "Ლ",
       "Მ", "Ნ", "Ო", "Პ", "Ჟ", "Რ", "Ს", "Ტ", "Უ", "Ფ",
       "Ქ", "Ღ", "Ყ", "Შ", "Ჩ", "Ც", "Ძ", "Წ", "Ჭ", "Ხ",
       "Ჯ", "Ჰ", "Ჱ", "Ჲ", "Ჳ", "Ჴ", "Ჵ", "Ჶ", "Ჷ", "Ჸ",
       "Ჹ", "Ჺ", "Ჽ", "Ჾ", "Ჿ", "U+1E00", "U+1E02", "U+1E04", "U+1E06", "U+1E08",
       "U+1E0A", "U+1E0C", "U+1E0E", "U+1E10", "U+1E12", "U+1E14", "U+1E16", "U+1E18", "U+1E1A", "U+1E1C",
       "U+1E1E", "U+1E20", "U+1E22", "U+1E24", "U+1E26", "U+1E28", "U+1E2A", "U+1E2C", "U+1E2E", "U+1E30",
       "U+1E32", "U+1E34", "U+1E36", "U+1E38", "U+1E3A", "U+1E3C", "U+1E3E", "U+1E40", "U+1E42", "U+1E44",
       "U+1E46", "U+1E48", "U+1E4A", "U+1E4C", "U+1E4E", "U+1E50", "U+1E52", "U+1E54", "U+1E56", "U+1E58",
       "U+1E5A", "U+1E5C", "U+1E5E", "U+1E60", "U+1E62", "U+1E64", "U+1E66", "U+1E68", "U+1E6A", "U+1E6C",
       "U+1E6E", "U+1E70", "U+1E72", "U+1E74", "U+1E76", "U+1E78", "U+1E7A", "U+1E7C", "U+1E7E", "Ẁ",
       "Ẃ", "Ẅ", "Ẇ", "Ẉ", "Ẋ", "Ẍ", "Ẏ", "Ẑ", "Ẓ", "Ẕ",
       "ẞ", "Ạ", "Ả", "Ấ", "Ầ", "Ẩ", "Ẫ", "Ậ", "Ắ", "Ằ",
       "Ẳ", "Ẵ", "Ặ", "Ẹ", "Ẻ", "Ẽ", "Ế", "Ề", "Ể", "Ễ",
       "Ệ", "Ỉ", "Ị", "Ọ", "Ỏ", "Ố", "Ồ", "Ổ", "Ỗ", "Ộ",
       "Ớ", "Ờ", "Ở", "Ỡ", "Ợ", "Ụ", "Ủ", "Ứ", "Ừ", "Ử",
       "Ữ", "Ự", "Ỳ", "Ỵ", "Ỷ", "Ỹ", "Ỻ", "Ỽ", "Ỿ", "U+1F08",
       "U+1F09", "U+1F0A", "U+1F0B", "U+1F0C", "U+1F0D", "U+1F0E", "U+1F0F", "U+1F18", "U+1F19", "U+1F1A",
       "U+1F1B", "U+1F1C", "U+1F1D", "U+1F28", "U+1F29", "U+1F2A", "U+1F2B", "U+1F2C", "U+1F2D", "U+1F2E",
       "U+1F2F", "U+1F38", "U+1F39", "U+1F3A", "U+1F3B", "U+1F3C", "U+1F3D", "U+1F3E", "U+1F3F", "U+1F48",
       "U+1F49", "U+1F4A", "U+1F4B", "U+1F4C", "U+1F4D", "U+1F59", "U+1F5B", "U+1F5D", "U+1F5F", "U+1F68",
       "U+1F69", "U+1F6A", "U+1F6B", "U+1F6C", "U+1F6D", "U+1F6E", "U+1F6F", "ᾈ", "ᾉ", "ᾊ",
       "ᾋ", "ᾌ", "ᾍ", "ᾎ", "ᾏ", "ᾘ", "ᾙ", "ᾚ", "ᾛ", "ᾜ",
       "ᾝ", "ᾞ", "ᾟ", "ᾨ", "ᾩ", "ᾪ", "ᾫ", "ᾬ", "ᾭ", "ᾮ",
       "ᾯ", "Ᾰ", "Ᾱ", "Ὰ", "Ά", "ᾼ", "Ὲ", "Έ", "Ὴ", "Ή",
       "ῌ", "Ῐ", "Ῑ", "Ὶ", "Ί", "Ῠ", "Ῡ", "Ὺ", "Ύ", "Ῥ",
       "Ὸ", "Ό", "Ὼ", "Ώ", "ῼ", "U+2126", "U+212A", "U+212B", "U+2132", "U+2160",
       "U+2161", "U+2162", "U+2163", "U+2164", "U+2165", "U+2166", "U+2167", "U+2168", "U+2169", "U+216A",
       "U+216B", "U+216C", "U+216D", "U+216E", "U+216F", "Ↄ", "Ⓐ", "Ⓑ", "Ⓒ", "Ⓓ",
       "Ⓔ", "Ⓕ", "Ⓖ", "Ⓗ", "Ⓘ", "Ⓙ", "Ⓚ", "Ⓛ", "Ⓜ", "Ⓝ",
       "Ⓞ", "Ⓟ", "Ⓠ", "Ⓡ", "Ⓢ", "Ⓣ", "Ⓤ", "Ⓥ", "Ⓦ", "Ⓧ",
       "Ⓨ", "Ⓩ", "U+2C00", "U+2C01", "U+2C02", "U+2C03", "U+2C04", "U+2C05", "U+2C06", "U+2C07",
       "U+2C08", "U+2C09", "U+2C0A", "U+2C0B", "U+2C0C", "U+2C0D", "U+2C0E", "U+2C0F", "U+2C10", "U+2C11",
       "U+2C12", "U+2C13", "U+2C14", "U+2C15", "U+2C16", "U+2C17", "U+2C18", "U+2C19", "U+2C1A", "U+2C1B",
       "U+2C1C", "U+2C1D", "U+2C1E", "U+2C1F", "U+2C20", "U+2C21", "U+2C22", "U+2C23", "U+2C24", "U+2C25",
       "U+2C26", "U+2C27", "U+2C28", "U+2C29", "U+2C2A", "U+2C2B", "U+2C2C", "U+2C2D", "U+2C2E", "U+2C2F",
       "U+2C60", "U+2C62", "U+2C63", "U+2C64", "U+2C67", "U+2C69", "U+2C6B", "U+2C6D", "U+2C6E", "U+2C6F",
       "U+2C70", "U+2C72", "U+2C75", "U+2C7E", "U+2C7F", "Ⲁ", "Ⲃ", "Ⲅ", "Ⲇ", "Ⲉ",
       "Ⲋ", "Ⲍ", "Ⲏ", "Ⲑ", "Ⲓ", "Ⲕ", "Ⲗ", "Ⲙ", "Ⲛ", "Ⲝ",
       "Ⲟ", "Ⲡ", "Ⲣ", "Ⲥ", "Ⲧ", "Ⲩ", "Ⲫ", "Ⲭ", "Ⲯ", "Ⲱ",
       "Ⲳ", "Ⲵ", "Ⲷ", "Ⲹ", "Ⲻ", "Ⲽ", "Ⲿ", "Ⳁ", "Ⳃ", "Ⳅ",
       "Ⳇ", "Ⳉ", "Ⳋ", "Ⳍ", "Ⳏ", "Ⳑ", "Ⳓ", "Ⳕ", "Ⳗ", "Ⳙ",
       "Ⳛ", "Ⳝ", "Ⳟ", "Ⳡ", "Ⳣ", "Ⳬ", "Ⳮ", "Ⳳ", "U+A640", "U+A642",
       "U+A644", "U+A646", "U+A648", "U+A64A", "U+A64C", "U+A64E", "U+A650", "U+A652", "U+A654", "U+A656",
       "U+A658", "U+A65A", "U+A65C", "U+A65E", "U+A660", "U+A662", "U+A664", "U+A666", "U+A668", "U+A66A",
       "U+A66C", "Ꚁ", "Ꚃ", "Ꚅ", "Ꚇ", "Ꚉ", "Ꚋ", "Ꚍ", "Ꚏ", "Ꚑ",
       "Ꚓ", "Ꚕ", "Ꚗ", "Ꚙ", "Ꚛ", "U+A722", "U+A724", "U+A726", "U+A728", "U+A72A",
       "U+A72C", "U+A72E", "U+A732", "U+A734", "U+A736", "U+A738", "U+A73A", "U+A73C", "U+A73E", "U+A740",
       "U+A742", "U+A744", "U+A746", "U+A748", "U+A74A", "U+A74C", "U+A74E", "U+A750", "U+A752", "U+A754",
       "U+A756", "U+A758", "U+A75A", "U+A75C", "U+A75E", "U+A760", "U+A762", "U+A764", "U+A766", "U+A768",
       "U+A76A", "U+A76C", "U+A76E", "U+A779", "U+A77B", "U+A77D", "U+A77E", "Ꞁ", "Ꞃ", "Ꞅ",
       "Ꞇ", "Ꞌ", "Ɥ", "Ꞑ", "Ꞓ", "Ꞗ", "Ꞙ", "Ꞛ", "Ꞝ", "Ꞟ",
       "Ꞡ", "Ꞣ", "Ꞥ", "Ꞧ", "Ꞩ", "Ɦ", "Ɜ", "Ɡ", "Ɬ", "Ɪ",
       "Ʞ", "Ʇ", "Ʝ", "Ꭓ", "Ꞵ", "Ꞷ", "Ꞹ", "Ꞻ", "Ꞽ", "Ꞿ",
       "Ꟁ", "Ꟃ", "Ꞔ", "Ʂ", "Ᶎ", "Ꟈ", "Ꟊ", "Ꟑ", "Ꟗ", "Ꟙ",
       "Ꟶ", "U+FF21", "U+FF22", "U+FF23", "U+FF24", "U+FF25", "U+FF26", "U+FF27", "U+FF28", "U+FF29",
       "U+FF2A", "U+FF2B", "U+FF2C", "U+FF2D", "U+FF2E", "U+FF2F", "U+FF30", "U+FF31", "U+FF32", "U+FF33",
       "U+FF34", "U+FF35", "U+FF36", "U+FF37", "U+FF38", "U+FF39", "U+FF3A", "U+10400", "U+10401", "U+10402",
       "U+10403", "U+10404", "U+10405", "U+10406", "U+10407", "U+10408", "U+10409", "U+1040A", "U+1040B", "U+1040C",
       "U+1040D", "U+1040E", "U+1040F", "U+10410", "U+10411", "U+10412", "U+10413", "U+10414", "U+10415", "U+10416",
       "U+10417", "U+10418", "U+10419", "U+1041A", "U+1041B", "U+1041C", "U+1041D", "U+1041E", "U+1041F", "U+10420",
       "U+10421", "U+10422", "U+10423", "U+10424", "U+10425", "U+10426", "U+10427", "U+104B0", "U+104B1", "U+104B2",
       "U+104B3", "U+104B4", "U+104B5", "U+104B6", "U+104B7", "U+104B8", "U+104B9", "U+104BA", "U+104BB", "U+104BC",
       "U+104BD", "U+104BE", "U+104BF", "U+104C0", "U+104C1", "U+104C2", "U+104C3", "U+104C4", "U+104C5", "U+104C6",
       "U+104C7", "U+104C8", "U+104C9", "U+104CA", "U+104CB", "U+104CC", "U+104CD", "U+104CE", "U+104CF", "U+104D0",
       "U+104D1", "U+104D2", "U+104D3", "U+10570", "U+10571", "U+10572", "U+10573", "U+10574", "U+10575", "U+10576",
       "U+10577", "U+10578", "U+10579", "U+1057A", "U+1057C", "U+1057D", "U+1057E", "U+1057F", "U+10580", "U+10581",
       "U+10582", "U+10583", "U+10584", "U+10585", "U+10586", "U+10587", "U+10588", "U+10589", "U+1058A", "U+1058C",
       "U+1058D", "U+1058E", "U+1058F", "U+10590", "U+10591", "U+10592", "U+10594", "U+10595", "U+10C80", "U+10C81",
       "U+10C82", "U+10C83", "U+10C84", "U+10C85", "U+10C86", "U+10C87", "U+10C88", "U+10C89", "U+10C8A", "U+10C8B",
       "U+10C8C", "U+10C8D", "U+10C8E", "U+10C8F", "U+10C90", "U+10C91", "U+10C92", "U+10C93", "U+10C94", "U+10C95",
       "U+10C96", "U+10C97", "U+10C98", "U+10C99", "U+10C9A", "U+10C9B", "U+10C9C", "U+10C9D", "U+10C9E", "U+10C9F",
       "U+10CA0", "U+10CA1", "U+10CA2", "U+10CA3", "U+10CA4", "U+10CA5", "U+10CA6", "U+10CA7", "U+10CA8", "U+10CA9",
       "U+10CAA", "U+10CAB", "U+10CAC", "U+10CAD", "U+10CAE", "U+10CAF", "U+10CB0", "U+10CB1", "U+10CB2", "U+118A0",
       "U+118A1", "U+118A2", "U+118A3", "U+118A4", "U+118A5", "U+118A6", "U+118A7", "U+118A8", "U+118A9", "U+118AA",
       "U+118AB", "U+118AC", "U+118AD", "U+118AE", "U+118AF", "U+118B0", "U+118B1", "U+118B2", "U+118B3", "U+118B4",
       "U+118B5", "U+118B6", "U+118B7", "U+118B8", "U+118B9", "U+118BA", "U+118BB", "U+118BC", "U+118BD", "U+118BE",
       "U+118BF", "U+16E40", "U+16E41", "U+16E42", "U+16E43", "U+16E44", "U+16E45", "U+16E46", "U+16E47", "U+16E48",
       "U+16E49", "U+16E4A", "U+16E4B", "U+16E4C", "U+16E4D", "U+16E4E", "U+16E4F", "U+16E50", "U+16E51", "U+16E52",
       "U+16E53", "U+16E54", "U+16E55", "U+16E56", "U+16E57", "U+16E58", "U+16E59", "U+16E5A", "U+16E5B", "U+16E5C",
       "U+16E5D", "U+16E5E", "U+16E5F", "U+1E900", "U+1E901", "U+1E902", "U+1E903", "U+1E904", "U+1E905", "U+1E906",
       "U+1E907", "U+1E908", "U+1E909", "U+1E90A", "U+1E90B", "U+1E90C", "U+1E90D", "U+1E90E", "U+1E90F", "U+1E910",
       "U+1E911", "U+1E912", "U+1E913", "U+1E914", "U+1E915", "U+1E916", "U+1E917", "U+1E918", "U+1E919", "U+1E91A",
       "U+1E91B", "U+1E91C", "U+1E91D", "U+1E91E", "U+1E91F", "U+1E920", "U+1E921"
    >>

UnicodeLower ==
    <<
       "à", "á", "â", "ã", "ä", "å", "æ", "ç", "è", "é",
       "ê", "ë", "ì", "í", "î", "ï", "ð", "ñ", "ò", "ó",
       "ô", "õ", "ö", "ø", "ù", "ú", "û", "ü", "ý", "þ",
       "U+0101", "U+0103", "U+0105", "U+0107", "U+0109", "U+010B", "U+010D", "U+010F", "U+0111", "U+0113",
       "U+0115", "U+0117", "U+0119", "U+011B", "U+011D", "U+011F", "U+0121", "U+0123", "U+0125", "U+0127",
       "U+0129", "U+012B", "U+012D", "U+012F", "i", "U+0133", "U+0135", "U+0137", "U+013A", "U+013C",
       "U+013E", "U+0140", "U+0142", "U+0144", "U+0146", "U+0148", "U+014B", "U+014D", "U+014F", "U+0151",
       "U+0153", "U+0155", "U+0157", "U+0159", "U+015B", "U+015D", "U+015F", "U+0161", "U+0163", "U+0165",
       "U+0167", "U+0169", "U+016B", "U+016D", "U+016F", "U+0171", "U+0173", "U+0175", "U+0177", "ÿ",
       "U+017A", "U+017C", "U+017E", "U+0253", "ƃ", "ƅ", "U+0254", "ƈ", "U+0256", "U+0257",
       "ƌ", "ǝ", "U+0259", "U+025B", "ƒ", "U+0260", "U+0263", "U+0269", "U+0268", "ƙ",
       "U+026F", "U+0272", "U+0275", "ơ", "ƣ", "ƥ", "ʀ", "ƨ", "ʃ", "ƭ",
       "ʈ", "ư", "ʊ", "ʋ", "ƴ", "ƶ", "ʒ", "ƹ", "ƽ", "ǆ",
       "ǆ", "ǉ", "ǉ", "ǌ", "ǌ", "ǎ", "ǐ", "ǒ", "ǔ", "ǖ",
       "ǘ", "ǚ", "ǜ", "ǟ", "ǡ", "ǣ", "ǥ", "ǧ", "ǩ", "ǫ",
       "ǭ", "ǯ", "ǳ", "ǳ", "ǵ", "ƕ", "ƿ", "ǹ", "ǻ", "ǽ",
       "ǿ", "U+0201", "U+0203", "U+0205", "U+0207", "U+0209", "U+020B", "U+020D", "U+020F", "U+0211",
       "U+0213", "U+0215", "U+0217", "U+0219", "U+021B", "U+021D", "U+021F", "ƞ", "U+0223", "U+0225",
       "U+0227", "U+0229", "U+022B", "U+022D", "U+022F", "U+0231", "U+0233", "U+2C65", "U+023C", "ƚ",
       "U+2C66", "U+0242", "ƀ", "ʉ", "ʌ", "U+0247", "U+0249", "U+024B", "U+024D", "U+024F",
       "U+0371", "U+0373", "U+0377", "ϳ", "ά", "έ", "ή", "ί", "ό", "ύ",
       "ώ", "α", "β", "γ", "δ", "ε", "ζ", "η", "θ", "ι",
       "κ", "λ", "μ", "ν", "ξ", "ο", "π", "ρ", "σ", "τ",
       "υ", "φ", "χ", "ψ", "ω", "ϊ", "ϋ", "ϗ", "ϙ", "ϛ",
       "ϝ", "ϟ", "ϡ", "ϣ", "ϥ", "ϧ", "ϩ", "ϫ", "ϭ", "ϯ",
       "θ", "ϸ", "ϲ", "ϻ", "U+037B", "U+037C", "U+037D", "U+0450", "U+0451", "U+0452",
       "U+0453", "U+0454", "U+0455", "U+0456", "U+0457", "U+0458", "U+0459", "U+045A", "U+045B", "U+045C",
       "U+045D", "U+045E", "U+045F", "U+0430", "U+0431", "U+0432", "U+0433", "U+0434", "U+0435", "U+0436",
       "U+0437", "U+0438", "U+0439", "U+043A", "U+043B", "U+043C", "U+043D", "U+043E", "U+043F", "U+0440",
       "U+0441", "U+0442", "U+0443", "U+0444", "U+0445", "U+0446", "U+0447", "U+0448", "U+0449", "U+044A",
       "U+044B", "U+044C", "U+044D", "U+044E", "U+044F", "U+0461", "U+0463", "U+0465", "U+0467", "U+0469",
       "U+046B", "U+046D", "U+046F", "U+0471", "U+0473", "U+0475", "U+0477", "U+0479", "U+047B", "U+047D",
       "U+047F", "ҁ", "ҋ", "ҍ", "ҏ", "ґ", "ғ", "ҕ", "җ", "ҙ",
       "қ", "ҝ", "ҟ", "ҡ", "ң", "ҥ", "ҧ", "ҩ", "ҫ", "ҭ",
       "ү", "ұ", "ҳ", "ҵ", "ҷ", "ҹ", "һ", "ҽ", "ҿ", "ӏ",
       "ӂ", "ӄ", "ӆ", "ӈ", "ӊ", "ӌ", "ӎ", "ӑ", "ӓ", "ӕ",
       "ӗ", "ә", "ӛ", "ӝ", "ӟ", "ӡ", "ӣ", "ӥ", "ӧ", "ө",
       "ӫ", "ӭ", "ӯ", "ӱ", "ӳ", "ӵ", "ӷ", "ӹ", "ӻ", "ӽ",
       "ӿ", "U+0501", "U+0503", "U+0505", "U+0507", "U+0509", "U+050B", "U+050D", "U+050F", "U+0511",
       "U+0513", "U+0515", "U+0517", "U+0519", "U+051B", "U+051D", "U+051F", "U+0521", "U+0523", "U+0525",
       "U+0527", "U+0529", "U+052B", "U+052D", "U+052F", "U+0561", "U+0562", "U+0563", "U+0564", "U+0565",
       "U+0566", "U+0567", "U+0568", "U+0569", "U+056A", "U+056B", "U+056C", "U+056D", "U+056E", "U+056F",
       "U+0570", "U+0571", "U+0572", "U+0573", "U+0574", "U+0575", "U+0576", "U+0577", "U+0578", "U+0579",
       "U+057A", "U+057B", "U+057C", "U+057D", "U+057E", "U+057F", "ր", "ց", "ւ", "փ",
       "ք", "օ", "ֆ", "U+2D00", "U+2D01", "U+2D02", "U+2D03", "U+2D04", "U+2D05", "U+2D06",
       "U+2D07", "U+2D08", "U+2D09", "U+2D0A", "U+2D0B", "U+2D0C", "U+2D0D", "U+2D0E", "U+2D0F", "U+2D10",
       "U+2D11", "U+2D12", "U+2D13", "U+2D14", "U+2D15", "U+2D16", "U+2D17", "U+2D18", "U+2D19", "U+2D1A",
       "U+2D1B", "U+2D1C", "U+2D1D", "U+2D1E", "U+2D1F", "U+2D20", "U+2D21", "U+2D22", "U+2D23", "U+2D24",
       "U+2D25", "U+2D27", "U+2D2D", "U+AB70", "U+AB71", "U+AB72", "U+AB73", "U+AB74", "U+AB75", "U+AB76",
       "U+AB77", "U+AB78", "U+AB79", "U+AB7A", "U+AB7B", "U+AB7C", "U+AB7D", "U+AB7E", "U+AB7F", "ꮀ",
       "ꮁ", "ꮂ", "ꮃ", "ꮄ", "ꮅ", "ꮆ", "ꮇ", "ꮈ", "ꮉ", "ꮊ",
       "ꮋ", "ꮌ", "ꮍ", "ꮎ", "ꮏ", "ꮐ", "ꮑ", "ꮒ", "ꮓ", "ꮔ",
       "ꮕ", "ꮖ", "ꮗ", "ꮘ", "ꮙ", "ꮚ", "ꮛ", "ꮜ", "ꮝ", "ꮞ",
       "ꮟ", "ꮠ", "ꮡ", "ꮢ", "ꮣ", "ꮤ", "ꮥ", "ꮦ", "ꮧ", "ꮨ",
       "ꮩ", "ꮪ", "ꮫ", "ꮬ", "ꮭ", "ꮮ", "ꮯ", "ꮰ", "ꮱ", "ꮲ",
       "ꮳ", "ꮴ", "ꮵ", "ꮶ", "ꮷ", "ꮸ", "ꮹ", "ꮺ", "ꮻ", "ꮼ",
       "ꮽ", "ꮾ", "ꮿ", "ᏸ", "ᏹ", "ᏺ", "ᏻ", "ᏼ", "ᏽ", "ა",
       "ბ", "გ", "დ", "ე", "ვ", "ზ", "თ", "ი", "კ", "ლ",
       "მ", "ნ", "ო", "პ", "ჟ", "რ", "ს", "ტ", "უ", "ფ",
       "ქ", "ღ", "ყ", "შ", "ჩ", "ც", "ძ", "წ", "ჭ", "ხ",
       "ჯ", "ჰ", "ჱ", "ჲ", "ჳ", "ჴ", "ჵ", "ჶ", "ჷ", "ჸ",
       "ჹ", "ჺ", "ჽ", "ჾ", "ჿ", "U+1E01", "U+1E03", "U+1E05", "U+1E07", "U+1E09",
       "U+1E0B", "U+1E0D", "U+1E0F", "U+1E11", "U+1E13", "U+1E15", "U+1E17", "U+1E19", "U+1E1B", "U+1E1D",
       "U+1E1F", "U+1E21", "U+1E23", "U+1E25", "U+1E27", "U+1E29", "U+1E2B", "U+1E2D", "U+1E2F", "U+1E31",
       "U+1E33", "U+1E35", "U+1E37", "U+1E39", "U+1E3B", "U+1E3D", "U+1E3F", "U+1E41", "U+1E43", "U+1E45",
       "U+1E47", "U+1E49", "U+1E4B", "U+1E4D", "U+1E4F", "U+1E51", "U+1E53", "U+1E55", "U+1E57", "U+1E59",
       "U+1E5B", "U+1E5D", "U+1E5F", "U+1E61", "U+1E63", "U+1E65", "U+1E67", "U+1E69", "U+1E6B", "U+1E6D",
       "U+1E6F", "U+1E71", "U+1E73", "U+1E75", "U+1E77", "U+1E79", "U+1E7B", "U+1E7D", "U+1E7F", "ẁ",
       "ẃ", "ẅ", "ẇ", "ẉ", "ẋ", "ẍ", "ẏ", "ẑ", "ẓ", "ẕ",
       "ß", "ạ", "ả", "ấ", "ầ", "ẩ", "ẫ", "ậ", "ắ", "ằ",
       "ẳ", "ẵ", "ặ", "ẹ", "ẻ", "ẽ", "ế", "ề", "ể", "ễ",
       "ệ", "ỉ", "ị", "ọ", "ỏ", "ố", "ồ", "ổ", "ỗ", "ộ",
       "ớ", "ờ", "ở", "ỡ", "ợ", "ụ", "ủ", "ứ", "ừ", "ử",
       "ữ", "ự", "ỳ", "ỵ", "ỷ", "ỹ", "ỻ", "ỽ", "ỿ", "U+1F00",
       "U+1F01", "U+1F02", "U+1F03", "U+1F04", "U+1F05", "U+1F06", "U+1F07", "U+1F10", "U+1F11", "U+1F12",
       "U+1F13", "U+1F14", "U+1F15", "U+1F20", "U+1F21", "U+1F22", "U+1F23", "U+1F24", "U+1F25", "U+1F26",
       "U+1F27", "U+1F30", "U+1F31", "U+1F32", "U+1F33", "U+1F34", "U+1F35", "U+1F36", "U+1F37", "U+1F40",
       "U+1F41", "U+1F42", "U+1F43", "U+1F44", "U+1F45", "U+1F51", "U+1F53", "U+1F55", "U+1F57", "U+1F60",
       "U+1F61", "U+1F62", "U+1F63", "U+1F64", "U+1F65", "U+1F66", "U+1F67", "ᾀ", "ᾁ", "ᾂ",
       "ᾃ", "ᾄ", "ᾅ", "ᾆ", "ᾇ", "ᾐ", "ᾑ", "ᾒ", "ᾓ", "ᾔ",
       "ᾕ", "ᾖ", "ᾗ", "ᾠ", "ᾡ", "ᾢ", "ᾣ", "ᾤ", "ᾥ", "ᾦ",
       "ᾧ", "ᾰ", "ᾱ", "U+1F70", "U+1F71", "ᾳ", "U+1F72", "U+1F73", "U+1F74", "U+1F75",
       "ῃ", "ῐ", "ῑ", "U+1F76", "U+1F77", "ῠ", "ῡ", "U+1F7A", "U+1F7B", "ῥ",
       "U+1F78", "U+1F79", "U+1F7C", "U+1F7D", "ῳ", "ω", "k", "å", "U+214E", "U+2170",
       "U+2171", "U+2172", "U+2173", "U+2174", "U+2175", "U+2176", "U+2177", "U+2178", "U+2179", "U+217A",
       "U+217B", "U+217C", "U+217D", "U+217E", "U+217F", "ↄ", "ⓐ", "ⓑ", "ⓒ", "ⓓ",
       "ⓔ", "ⓕ", "ⓖ", "ⓗ", "ⓘ", "ⓙ", "ⓚ", "ⓛ", "ⓜ", "ⓝ",
       "ⓞ", "ⓟ", "ⓠ", "ⓡ", "ⓢ", "ⓣ", "ⓤ", "ⓥ", "ⓦ", "ⓧ",
       "ⓨ", "ⓩ", "U+2C30", "U+2C31", "U+2C32", "U+2C33", "U+2C34", "U+2C35", "U+2C36", "U+2C37",
       "U+2C38", "U+2C39", "U+2C3A", "U+2C3B", "U+2C3C", "U+2C3D", "U+2C3E", "U+2C3F", "U+2C40", "U+2C41",
       "U+2C42", "U+2C43", "U+2C44", "U+2C45", "U+2C46", "U+2C47", "U+2C48", "U+2C49", "U+2C4A", "U+2C4B",
       "U+2C4C", "U+2C4D", "U+2C4E", "U+2C4F", "U+2C50", "U+2C51", "U+2C52", "U+2C53", "U+2C54", "U+2C55",
       "U+2C56", "U+2C57", "U+2C58", "U+2C59", "U+2C5A", "U+2C5B", "U+2C5C", "U+2C5D", "U+2C5E", "U+2C5F",
       "U+2C61", "U+026B", "U+1D7D", "U+027D", "U+2C68", "U+2C6A", "U+2C6C", "U+0251", "U+0271", "U+0250",
       "U+0252", "U+2C73", "U+2C76", "U+023F", "U+0240", "ⲁ", "ⲃ", "ⲅ", "ⲇ", "ⲉ",
       "ⲋ", "ⲍ", "ⲏ", "ⲑ", "ⲓ", "ⲕ", "ⲗ", "ⲙ", "ⲛ", "ⲝ",
       "ⲟ", "ⲡ", "ⲣ", "ⲥ", "ⲧ", "ⲩ", "ⲫ", "ⲭ", "ⲯ", "ⲱ",
       "ⲳ", "ⲵ", "ⲷ", "ⲹ", "ⲻ", "ⲽ", "ⲿ", "ⳁ", "ⳃ", "ⳅ",
       "ⳇ", "ⳉ", "ⳋ", "ⳍ", "ⳏ", "ⳑ", "ⳓ", "ⳕ", "ⳗ", "ⳙ",
       "ⳛ", "ⳝ", "ⳟ", "ⳡ", "ⳣ", "ⳬ", "ⳮ", "ⳳ", "U+A641", "U+A643",
       "U+A645", "U+A647", "U+A649", "U+A64B", "U+A64D", "U+A64F", "U+A651", "U+A653", "U+A655", "U+A657",
       "U+A659", "U+A65B", "U+A65D", "U+A65F", "U+A661", "U+A663", "U+A665", "U+A667", "U+A669", "U+A66B",
       "U+A66D", "ꚁ", "ꚃ", "ꚅ", "ꚇ", "ꚉ", "ꚋ", "ꚍ", "ꚏ", "ꚑ",
       "ꚓ", "ꚕ", "ꚗ", "ꚙ", "ꚛ", "U+A723", "U+A725", "U+A727", "U+A729", "U+A72B",
       "U+A72D", "U+A72F", "U+A733", "U+A735", "U+A737", "U+A739", "U+A73B", "U+A73D", "U+A73F", "U+A741",
       "U+A743", "U+A745", "U+A747", "U+A749", "U+A74B", "U+A74D", "U+A74F", "U+A751", "U+A753", "U+A755",
       "U+A757", "U+A759", "U+A75B", "U+A75D", "U+A75F", "U+A761", "U+A763", "U+A765", "U+A767", "U+A769",
       "U+A76B", "U+A76D", "U+A76F", "U+A77A", "U+A77C", "U+1D79", "U+A77F", "ꞁ", "ꞃ", "ꞅ",
       "ꞇ", "ꞌ", "U+0265", "ꞑ", "ꞓ", "ꞗ", "ꞙ", "ꞛ", "ꞝ", "ꞟ",
       "ꞡ", "ꞣ", "ꞥ", "ꞧ", "ꞩ", "U+0266", "U+025C", "U+0261", "U+026C", "U+026A",
       "ʞ", "ʇ", "ʝ", "U+AB53", "ꞵ", "ꞷ", "ꞹ", "ꞻ", "ꞽ", "ꞿ",
       "ꟁ", "ꟃ", "ꞔ", "ʂ", "ᶎ", "ꟈ", "ꟊ", "ꟑ", "ꟗ", "ꟙ",
       "ꟶ", "U+FF41", "U+FF42", "U+FF43", "U+FF44", "U+FF45", "U+FF46", "U+FF47", "U+FF48", "U+FF49",
       "U+FF4A", "U+FF4B", "U+FF4C", "U+FF4D", "U+FF4E", "U+FF4F", "U+FF50", "U+FF51", "U+FF52", "U+FF53",
       "U+FF54", "U+FF55", "U+FF56", "U+FF57", "U+FF58", "U+FF59", "U+FF5A", "U+10428", "U+10429", "U+1042A",
       "U+1042B", "U+1042C", "U+1042D", "U+1042E", "U+1042F", "U+10430", "U+10431", "U+10432", "U+10433", "U+10434",
       "U+10435", "U+10436", "U+10437", "U+10438", "U+10439", "U+1043A", "U+1043B", "U+1043C", "U+1043D", "U+1043E",
       "U+1043F", "U+10440", "U+10441", "U+10442", "U+10443", "U+10444", "U+10445", "U+10446", "U+10447", "U+10448",
       "U+10449", "U+1044A", "U+1044B", "U+1044C", "U+1044D", "U+1044E", "U+1044F", "U+104D8", "U+104D9", "U+104DA",
       "U+104DB", "U+104DC", "U+104DD", "U+104DE", "U+104DF", "U+104E0", "U+104E1", "U+104E2", "U+104E3", "U+104E4",
       "U+104E5", "U+104E6", "U+104E7", "U+104E8", "U+104E9", "U+104EA", "U+104EB", "U+104EC", "U+104ED", "U+104EE",
       "U+104EF", "U+104F0", "U+104F1", "U+104F2", "U+104F3", "U+104F4", "U+104F5", "U+104F6", "U+104F7", "U+104F8",
       "U+104F9", "U+104FA", "U+104FB", "U+10597", "U+10598", "U+10599", "U+1059A", "U+1059B", "U+1059C", "U+1059D",
       "U+1059E", "U+1059F", "U+105A0", "U+105A1", "U+105A3", "U+105A4", "U+105A5", "U+105A6", "U+105A7", "U+105A8",
       "U+105A9", "U+105AA", "U+105AB", "U+105AC", "U+105AD", "U+105AE", "U+105AF", "U+105B0", "U+105B1", "U+105B3",
       "U+105B4", "U+105B5", "U+105B6", "U+105B7", "U+105B8", "U+105B9", "U+105BB", "U+105BC", "U+10CC0", "U+10CC1",
       "U+10CC2", "U+10CC3", "U+10CC4", "U+10CC5", "U+10CC6", "U+10CC7", "U+10CC8", "U+10CC9", "U+10CCA", "U+10CCB",
       "U+10CCC", "U+10CCD", "U+10CCE", "U+10CCF", "U+10CD0", "U+10CD1", "U+10CD2", "U+10CD3", "U+10CD4", "U+10CD5",
       "U+10CD6", "U+10CD7", "U+10CD8", "U+10CD9", "U+10CDA", "U+10CDB", "U+10CDC", "U+10CDD", "U+10CDE", "U+10CDF",
       "U+10CE0", "U+10CE1", "U+10CE2", "U+10CE3", "U+10CE4", "U+10CE5", "U+10CE6", "U+10CE7", "U+10CE8", "U+10CE9",
       "U+10CEA", "U+10CEB", "U+10CEC", "U+10CED", "U+10CEE", "U+10CEF", "U+10CF0", "U+10CF1", "U+10CF2", "U+118C0",
       "U+118C1", "U+118C2", "U+118C3", "U+118C4", "U+118C5", "U+118C6", "U+118C7", "U+118C8", "U+118C9", "U+118CA",
       "U+118CB", "U+118CC", "U+118CD", "U+118CE", "U+118CF", "U+118D0", "U+118D1", "U+118D2", "U+118D3", "U+118D4",
       "U+118D5", "U+118D6", "U+118D7", "U+118D8", "U+118D9", "U+118DA", "U+118DB", "U+118DC", "U+118DD", "U+118DE",
       "U+118DF", "U+16E60", "U+16E61", "U+16E62", "U+16E63", "U+16E64", "U+16E65", "U+16E66", "U+16E67", "U+16E68",
       "U+16E69", "U+16E6A", "U+16E6B", "U+16E6C", "U+16E6D", "U+16E6E", "U+16E6F", "U+16E70", "U+16E71", "U+16E72",
       "U+16E73", "U+16E74", "U+16E75", "U+16E76", "U+16E77", "U+16E78", "U+16E79", "U+16E7A", "U+16E7B", "U+16E7C",
       "U+16E7D", "U+16E7E", "U+16E7F", "U+1E922", "U+1E923", "U+1E924", "U+1E925", "U+1E926", "U+1E927", "U+1E928",
       "U+1E929", "U+1E92A", "U+1E92B", "U+1E92C", "U+1E92D", "U+1E92E", "U+1E92F", "U+1E930", "U+1E931", "U+1E932",
       "U+1E933", "U+1E934", "U+1E935", "U+1E936", "U+1E937", "U+1E938", "U+1E939", "U+1E93A", "U+1E93B", "U+1E93C",
       "U+1E93D", "U+1E93E", "U+1E93F", "U+1E940", "U+1E941", "U+1E942", "U+1E943"
    >>

UnicodeUpperSet == { UnicodeUpper[i] : i \in 1..Len(UnicodeUpper) }

UnicodeLowerOf ==
    [c \in UnicodeUpperSet |->
        UnicodeLower[CHOOSE i \in 1..Len(UnicodeUpper) : UnicodeUpper[i] = c]]

\* unicode.ToLower of one character
ToLowerChar(c) ==
    IF \E i \in 1..Len(UpperChars) : UpperChars[i] = c
    THEN LowerChars[CHOOSE i \in 1..Len(UpperChars) : UpperChars[i] = c]
    ELSE IF c \in UnicodeUpperSet THEN UnicodeLowerOf[c]
    ELSE c

\* unicode.IsSpace: "\t", "\n", "\v" (U+000B), "\f", "\r", " ", U+0085, U+00A0
\* and the characters of category Z
WhiteSpace ==
    { "\t", "\n", "U+000B", "\f", "\r", " ", "U+0085", " ",
      " ", "U+2000", "U+2001", "U+2002", "U+2003", "U+2004", "U+2005", "U+2006",
      "U+2007", "U+2008", "U+2009", "U+200A", "U+2028", "U+2029", "U+202F", "U+205F", "U+3000" }

ToLower(s) == [i \in 1..Len(s) |-> ToLowerChar(s[i])]

\* strings.Contains: sub occurs in s at some byte offset
Contains(s, sub) ==
    \E i \in 0..(Len(s) - Len(sub)) : SubSeq(s, i + 1, i + Len(sub)) = sub

\* the last occurrence taken for the first
IndexOfLast(s, c) ==
    IF \E i \in 1..Len(s) : s[i] = c
    THEN (CHOOSE i \in 1..Len(s) : s[i] = c /\ \A j \in (i + 1)..Len(s) : s[j] # c) - 1
    ELSE -1

\* strings.Index for a one-byte needle, 0-based, -1 when absent
Index(s, c) ==
    IF \E i \in 1..Len(s) : s[i] = c
    THEN (CHOOSE i \in 1..Len(s) : s[i] = c /\ \A j \in 1..(i - 1) : s[j] # c) - 1
    ELSE -1

\* strings.LastIndex for a one-byte needle, 0-based, -1 when absent
LastIndex(s, c) ==
    IF \E i \in 1..Len(s) : s[i] = c
    THEN (CHOOSE i \in 1..Len(s) : s[i] = c /\ \A j \in (i + 1)..Len(s) : s[j] # c) - 1
    ELSE -1

----------------------------------------------------------------------------
(* Parameter inference *)

EasyKeywords == << << "e","a","s","y" >>,
                   << "s","i","m","p","l","e" >>,
                   << "b","a","s","i","c" >>,
                   << "b","e","g","i","n","n","e","r" >> >>

HardKeywords == << << "h","a","r","d" >>,
                   << "d","i","f","f","i","c","u","l","t" >>,
                   << "c","h","a","l","l","e","n","g","i","n","g" >>,
                   << "a","d","v","a","n","c","e","d" >> >>

EssayKeywords == << << "e","s","s","a","y" >>,
                    << "e","x","p","l","a","i","n" >>,
                    << "d","e","s","c","r","i","b","e" >>,
                    << "d","i","s","c","u","s","s" >> >>

TrueFalseKeywords == << << "t","r","u","e" >>,
                        << "f","a","l","s","e" >>,
                        << "y","e","s" >>,
                        << "n","o" >> >>

RECURSIVE KeywordLoop(_, _, _)
KeywordLoop(lowerText, keywords, k) ==
    IF k > Len(keywords) THEN FALSE
    ELSE IF Contains(lowerText, ToLower(keywords[k])) THEN TRUE
    ELSE KeywordLoop(lowerText, keywords, k + 1)

containsKeywords(text, keywords) == KeywordLoop(ToLower(text), keywords, 1)

\* the two keyword checks in the other order
hardFirstDifficulty(message) ==
    IF containsKeywords(message, HardKeywords) THEN "hard"
    ELSE IF containsKeywords(message, EasyKeywords) THEN "easy"
    ELSE "medium"

extractDifficulty(message) ==
    IF containsKeywords(message, EasyKeywords) THEN "easy"
    ELSE IF containsKeywords(message, HardKeywords) THEN "hard"
    ELSE "medium"

\* the two keyword checks in the other order
trueFalseFirstType(message) ==
    IF containsKeywords(message, TrueFalseKeywords) THEN "true-false"
    ELSE IF containsKeywords(message, EssayKeywords) THEN "essay"
    ELSE "multiple-choice"

extractQuestionType(message) ==
    IF containsKeywords(message, EssayKeywords) THEN "essay"
    ELSE IF containsKeywords(message, TrueFalseKeywords) THEN "true-false"
    ELSE "multiple-choice"

----------------------------------------------------------------------------
(* Data *)

NoQuestion == << >>

Msg(role, content) == [Role |-> role, Content |-> content, Question |-> NoQuestion]

EmptyText == << >>
BlankText == << " ", " " >>
HardEssayText == << "h","a","r","d"," ","e","s","s","a","y" >>
\* "Here's a quiz question based on your notes:"
IntroLabel ==
    << "H","e","r","e","'","s"," ","a"," ","q","u","i",
       "z"," ","q","u","e","s","t","i","o","n"," ","b",
       "a","s","e","d"," ","o","n"," ","y","o","u","r",
       " ","n","o","t","e","s",":" >>

\* turns a caller can send before the last one
EarlierTurns == { Msg("assistant", IntroLabel) }

\* turns a caller can send last
LastTurns == EarlierTurns \cup { Msg("user", HardEssayText), Msg("user", EmptyText), Msg("user", BlankText) }

RECURSIVE SeqsUpTo(_, _)
SeqsUpTo(S, n) ==
    IF n = 0 THEN { << >> }
    ELSE LET shorter == SeqsUpTo(S, n - 1)
         IN  shorter \cup { Append(q, x) : q \in { r \in shorter : Len(r) = n - 1 }, x \in S }

Conversations ==
    { << >> } \cup
    { Append(q, m) : q \in SeqsUpTo(EarlierTurns, MaxConv - 1), m \in LastTurns }

NoteIdDomain == { 0, 1, 2 }

NoteIdLists == SeqsUpTo(NoteIdDomain, MaxNoteIds)

NoteContents == << << "a" >>, << "b" >> >>

Note(id) == [ID |-> id, Content |-> NoteContents[id]]

\* repositories, newest note first
Repos == { << >>, << Note(1) >>, << Note(2), Note(1) >> }

\* the identifiers a caller can name when updating or deleting a note
StoredIdDomain == 0..Len(NoteContents)

\* the contents a caller can send when creating or updating a note
WriteContents == { << " ", "b", " " >>, << "\f", " " >> }

Ev(name, id, ok) == [ev |-> name, id |-> id, ok |-> ok]

NoResult == [status |-> "none", http |-> 0, success |-> FALSE, err |-> << >>,
             message |-> << >>, conversation |-> << >>]

NoExtractInput == [lead |-> << >>, payload |-> << >>, trail |-> << >>, ids |-> << >>,
                   question |-> "", type |-> "", difficulty |-> ""]

----------------------------------------------------------------------------
(* Response extraction *)

\* JSON object members a completion can hold; typed = FALSE when the value's
\* JSON type does not fit the Go field (json.UnmarshalTypeError)
Members == {
    [tok |-> "question:Q?",       key |-> "question",   str |-> "Q?",    list |-> << >>, typed |-> TRUE],
    [tok |-> "question:",         key |-> "question",   str |-> "",      list |-> << >>, typed |-> TRUE],
    [tok |-> "question:7",        key |-> "question",   str |-> "",      list |-> << >>, typed |-> FALSE],
    [tok |-> "type:essay",        key |-> "type",       str |-> "essay", list |-> << >>, typed |-> TRUE],
    [tok |-> "type:riddle",       key |-> "type",       str |-> "riddle", list |-> << >>, typed |-> TRUE],
    [tok |-> "difficulty:hard",   key |-> "difficulty", str |-> "hard",  list |-> << >>, typed |-> TRUE],
    [tok |-> "difficulty:extreme", key |-> "difficulty", str |-> "extreme", list |-> << >>, typed |-> TRUE],
    [tok |-> "options:[A,B]",     key |-> "options",    str |-> "",      list |-> << "A", "B" >>, typed |-> TRUE] }

MemberToks == { m.tok : m \in Members }

MemberOf(tok) == CHOOSE m \in Members : m.tok = tok

IsSpace(tok) == tok = " "

StripSpace(s) == SelectSeq(s, LAMBDA tok : ~IsSpace(tok))

\* the syntax encoding/json accepts for one object: { member , member ... }
ValidObject(toks) ==
    /\ Len(toks) >= 2
    /\ toks[1] = "{"
    /\ toks[Len(toks)] = "}"
    /\ LET inner == SubSeq(toks, 2, Len(toks) - 1)
       IN  \/ inner = << >>
           \/ /\ Len(inner) % 2 = 1
              /\ \A i \in 1..Len(inner) :
                    IF i % 2 = 1 THEN inner[i] \in MemberToks ELSE inner[i] = ","

\* the members of a valid object, in order
ObjectMembers(toks) ==
    LET inner == SubSeq(toks, 2, Len(toks) - 1)
    IN  SelectSeq(inner, LAMBDA tok : tok \in MemberToks)

\* a field decoded by encoding/json: the last member with the key wins,
\* a field no member sets keeps its zero value
RECURSIVE FieldMember(_, _, _)
FieldMember(ms, key, k) ==
    IF k = 0 THEN [tok |-> "", key |-> key, str |-> "", list |-> << >>, typed |-> TRUE]
    ELSE IF MemberOf(ms[k]).key = key THEN MemberOf(ms[k])
    ELSE FieldMember(ms, key, k - 1)

\* json.Unmarshal of the delimited text into llmResponse
Unmarshal(jsonResponse) ==
    LET toks == StripSpace(jsonResponse)
    IN  IF ~ValidObject(toks)
        THEN [ok |-> FALSE, cause |-> "invalid syntax",
              Question |-> "", Type |-> "", Options |-> << >>, Difficulty |-> ""]
        ELSE LET ms == ObjectMembers(toks)
                 f(key) == FieldMember(ms, key, Len(ms))
             IN  [ok |-> \A i \in 1..Len(ms) : MemberOf(ms[i]).typed,
                  cause |-> "cannot unmarshal into Go struct field",
                  Question |-> f("question").str,
                  Type |-> f("type").str,
                  Options |-> f("options").list,
                  Difficulty |-> f("difficulty").str]

\* time.Now().Unix(): whole seconds
Unix(t) == t \div TicksPerSecond

questionID(t) == [prefix |-> "q_llm_", unix |-> Unix(t)]

ParseError(chain) == [outcome |-> "error", err |-> chain, question |-> << >>]

ParsePanic == [outcome |-> "panic", err |-> << "slice bounds out of range" >>,
               question |-> << >>]

\* a type outside the enumerated ones replaced by the default
CoercedType(llmType) ==
    IF llmType \in { "multiple-choice", "essay", "true-false" } THEN llmType
    ELSE "multiple-choice"

\* parseLLMResponse: Type: llmResponse.Type, the payload's string as it is
RecordType(llmType) == llmType

\* the check on the required field left out
QuestionMissingNever(question) == FALSE

\* parseLLMResponse: llmResponse.Question == ""
QuestionMissing(question) == question = ""

parseLLMResponse(response, ids, t) ==
    LET jsonStart == Index(response, "{")
        jsonEnd == LastIndex(response, "}") + 1
    IN  IF jsonStart = -1 \/ jsonEnd = 0
        THEN ParseError(<< "no valid JSON found in response" >>)
        ELSE IF jsonStart > jsonEnd
        THEN ParsePanic
        ELSE LET llmResponse == Unmarshal(SubSeq(response, jsonStart + 1, jsonEnd))
             IN  IF ~llmResponse.ok
                 THEN ParseError(<< "failed to parse JSON", llmResponse.cause >>)
                 ELSE IF QuestionMissing(llmResponse.Question)
                 THEN ParseError(<< "question field is required" >>)
                 ELSE [outcome |-> "ok", err |-> << >>,
                       question |-> << [ID |-> questionID(t),
                                        Text |-> llmResponse.Question,
                                        Type |-> RecordType(llmResponse.Type),
                                        Options |-> llmResponse.Options,
                                        Difficulty |-> llmResponse.Difficulty,
                                        BasedOnNotes |-> ids] >>]

\* completions the model returns in the pipeline
RawResponses == {
    << "x", "{", "question:Q?", ",", "type:essay", ",", "difficulty:hard", "}", "x" >>,
    << "{", "question:Q?", ",", "type:essay", ",", "options:[A,B]", "}" >>,
    << "{", "type:essay", "}" >>,
    << "{", "question:", "}" >>,
    << "x", "x" >>,
    << "{", "question:Q?" >>,
    << "}", "x", "{" >> }

----------------------------------------------------------------------------
(* Note service and repository *)

\* NoteRepository.GetNoteByID: the stored note, or not found
RepoGetNoteByID(id) ==
    IF \E k \in 1..Len(repo) : repo[k].ID = id
    THEN [ok |-> TRUE, note |-> << repo[CHOOSE k \in 1..Len(repo) : repo[k].ID = id] >>]
    ELSE [ok |-> FALSE, note |-> << >>]

\* NoteService.GetNoteByID: reached says whether the repository was asked
GetNoteByID(id) ==
    IF id <= 0
    THEN [ok |-> FALSE, note |-> << >>, reached |-> FALSE]
    ELSE [ok |-> RepoGetNoteByID(id).ok, note |-> RepoGetNoteByID(id).note,
          reached |-> TRUE]

\* strings.TrimSpace: leading and trailing white space removed
RECURSIVE TrimLeft(_)
TrimLeft(text) ==
    IF Len(text) > 0 /\ text[1] \in WhiteSpace
    THEN TrimLeft(Tail(text))
    ELSE text

RECURSIVE TrimRight(_)
TrimRight(text) ==
    IF Len(text) > 0 /\ text[Len(text)] \in WhiteSpace
    THEN TrimRight(SubSeq(text, 1, Len(text) - 1))
    ELSE text

TrimSpace(text) == TrimLeft(TrimRight(text))

Stored(id) == \E k \in 1..Len(repo) : repo[k].ID = id

\* NoteRepository.CreateNote: the new note gets the next identifier and is the newest
RepoCreateNote(content) == << [ID |-> nextID, Content |-> content] >> \o repo

\* NoteRepository.UpdateNote: the stored note's content is replaced in place
RepoUpdateNote(id, content) ==
    [k \in 1..Len(repo) |-> IF repo[k].ID = id THEN [repo[k] EXCEPT !.Content = content]
                            ELSE repo[k]]

\* NoteRepository.DeleteNote: the stored note is removed
RepoDeleteNote(id) == SelectSeq(repo, LAMBDA n : n.ID # id)

\* the fetch-all branch taken for a single identifier too
FetchesAllUpToOne(ids) == Len(ids) <= 1

\* getNotesContent: len(noteIds) == 0 selects the fetch-all branch
FetchesAll(ids) == Len(ids) = 0

\* a failed fetch throws away what was resolved before it
AppendResolvedOrReset(ns, got) == IF got.ok THEN ns \o got.note ELSE << >>

\* getNotesContent, the loop body: a failed fetch is skipped, a note is appended
AppendResolved(ns, got) == IF got.ok THEN ns \o got.note ELSE ns

\* the check for an empty result left out
NoNotesNever(ns) == FALSE

\* getNotesContent: len(notes) == 0 is the "no notes found" failure
NoNotes(ns) == Len(ns) = 0

\* getNotesContent, the strings.Builder loop: "Note <id>: <content>" entries,
\* each but the first preceded by the separator "\n\n---\n\n"
CombineNotes(ns) ==
    [k \in 1..Len(ns) |-> [separator |-> k > 1, id |-> ns[k].ID, content |-> ns[k].Content]]

\* SYSTEM_PROMPT + "\n\n" + Sprintf(USER_PROMPT_TEMPLATE, ...)
BuildPrompt(notesContent, difficulty, questionType) ==
    [system |-> "SYSTEM_PROMPT", notes |-> notesContent,
     difficulty |-> difficulty, questionType |-> questionType]

----------------------------------------------------------------------------
(* Validation *)

\* QuizHandler.validateQuizRequest: the error, << >> for nil
validateQuizRequest(conv) ==
    IF Len(conv) = 0 THEN << "conversation cannot be empty" >>
    ELSE IF conv[Len(conv)].Role # "user" THEN << "last message must be from user" >>
    ELSE IF conv[Len(conv)].Content = << >> THEN << "user message cannot be empty" >>
    ELSE << >>

\* the service's checks without the one on the last turn's role
serviceValidateNoRole(conv) ==
    IF Len(conv) = 0 THEN << "conversation cannot be empty" >> ELSE << >>

\* QuizService.GenerateQuiz, its two checks: the error, << >> for nil
serviceValidate(conv) ==
    IF Len(conv) = 0 THEN << "conversation cannot be empty" >>
    ELSE IF conv[Len(conv)].Role # "user" THEN << "last message must be from user" >>
    ELSE << >>

\* the assistant turn generateQuizWithLLM builds around a question record
AssistantMessage(questionData) ==
    [Role |-> "assistant", Content |-> IntroLabel, Question |-> << questionData >>]

\* the new turn put in front of the conversation instead of behind it
PrependedConversation(conv, newMessage) == << newMessage >> \o conv

\* QuizHandler.GenerateQuiz: append(req.Conversation, newMessage)
UpdatedConversation(conv, newMessage) == Append(conv, newMessage)

\* QuizHandler.writeErrorResponse: the status code, success false and the message
writeErrorResponse(statusCode, message) ==
    [status |-> "error", http |-> statusCode, success |-> FALSE, err |-> message,
     message |-> << >>, conversation |-> << >>]

\* QuizHandler.writeJSONResponse of the QuizResponse: 200, success true, the conversation
writeQuizResponse(updatedConversation, newMessage) ==
    [status |-> "ok", http |-> 200, success |-> TRUE, err |-> << >>,
     message |-> << newMessage >>, conversation |-> updatedConversation]

\* a service error answered as a bad request
FailureBadRequest(err) ==
    IF via = "http"
    THEN writeErrorResponse(400, << "Failed to generate quiz" >> \o err)
    ELSE [status |-> "error", http |-> 0, success |-> FALSE, err |-> err,
          message |-> << >>, conversation |-> << >>]

\* what the caller gets when the service returns err
Failure(err) ==
    IF via = "http"
    THEN writeErrorResponse(500, << "Failed to generate quiz" >> \o err)
    ELSE [status |-> "error", http |-> 0, success |-> FALSE, err |-> err,
          message |-> << >>, conversation |-> << >>]

\* what the caller gets when the service returns newMessage
Success(newMessage) ==
    IF via = "http"
    THEN writeQuizResponse(UpdatedConversation(conversation, newMessage), newMessage)
    ELSE [status |-> "ok", http |-> 0, success |-> FALSE, err |-> << >>,
          message |-> << newMessage >>, conversation |-> << >>]

\* a panic unwinds the service and the handler; net/http drops the connection
Panicked(err) ==
    [status |-> "panic", http |-> 0, success |-> FALSE, err |-> err,
     message |-> << >>, conversation |-> << >>]

----------------------------------------------------------------------------
(* The request pipeline *)

Init ==
    /\ pc = "idle"
    /\ via = "http"
    /\ conversation = << >>
    /\ noteIds = << >>
    /\ repo \in Repos
    /\ nextID = Len(repo) + 1
    /\ notes = << >>
    /\ idx = 1
    /\ trace = << >>
    /\ prompt = << >>
    /\ completion = << >>
    /\ result = NoResult
    /\ now = 0
    /\ issued = { }
    /\ inferText = << >>
    /\ inferOut = << >>
    /\ extractIn = NoExtractInput
    /\ extractOut = << >>

CanStart == pc = "idle"

\* the per-request state a new request starts from
Begin(v, conv, ids) ==
    /\ via' = v
    /\ conversation' = conv
    /\ noteIds' = ids
    /\ notes' = << >>
    /\ idx' = 1
    /\ prompt' = << >>
    /\ completion' = << >>
    /\ UNCHANGED << repo, nextID, now, issued, inferVars, extractVars >>

\* QuizHandler.GenerateQuiz: the body does not decode
HandlerBadJSON ==
    /\ CanStart
    /\ Begin("http", << >>, << >>)
    /\ trace' = << Ev("Decode", 0, FALSE) >>
    /\ result' = writeErrorResponse(400, << "Invalid JSON payload" >>)
    /\ pc' = "done"

\* QuizHandler.GenerateQuiz: decode, validate, then call the service
HandlerReceive ==
    /\ CanStart
    /\ \E conv \in Conversations, ids \in NoteIdLists :
          /\ Begin("http", conv, ids)
          /\ LET err == validateQuizRequest(conv)
             IN  IF err # << >>
                 THEN /\ trace' = << Ev("Decode", 0, TRUE), Ev("validateQuizRequest", 0, FALSE) >>
                      /\ result' = writeErrorResponse(400, err)
                      /\ pc' = "done"
                 ELSE /\ trace' = << Ev("Decode", 0, TRUE), Ev("validateQuizRequest", 0, TRUE) >>
                      /\ result' = NoResult
                      /\ pc' = "service"

\* QuizService.GenerateQuiz called by another caller than the handler
DirectCall ==
    /\ CanStart
    /\ \E conv \in Conversations, ids \in NoteIdLists :
          /\ Begin("direct", conv, ids)
          /\ trace' = << >>
          /\ result' = NoResult
          /\ pc' = "service"

\* QuizService.GenerateQuiz: the checks on the conversation
ServiceValidate ==
    /\ pc = "service"
    /\ LET err == serviceValidate(conversation)
       IN  IF err # << >>
           THEN /\ trace' = Append(trace, Ev("GenerateQuiz", 0, FALSE))
                /\ result' = Failure(err)
                /\ pc' = "done"
           ELSE /\ trace' = Append(trace, Ev("GenerateQuiz", 0, TRUE))
                /\ result' = result
                /\ pc' = "aggregate"
    /\ UNCHANGED << via, conversation, noteIds, repo, nextID, notes, idx, prompt, completion,
                    now, issued, inferVars, extractVars >>

\* getNotesContent, len(noteIds) == 0: NoteService.GetAllNotes
FetchAll ==
    /\ pc = "aggregate"
    /\ FetchesAll(noteIds)
    /\ \E dbOk \in BOOLEAN :
          IF dbOk
          THEN /\ notes' = repo
               /\ trace' = trace \o << Ev("GetAllNotes", 0, TRUE), Ev("repo.GetAllNotes", 0, TRUE) >>
               /\ result' = result
               /\ pc' = "fetched"
          ELSE /\ notes' = notes
               /\ trace' = trace \o << Ev("GetAllNotes", 0, FALSE), Ev("repo.GetAllNotes", 0, FALSE) >>
               /\ result' = Failure(<< "failed to retrieve notes", "failed to get notes",
                                       "failed to query notes" >>)
               /\ pc' = "done"
    /\ UNCHANGED << via, conversation, noteIds, repo, nextID, idx, prompt, completion,
                    now, issued, inferVars, extractVars >>

\* getNotesContent, one turn of the loop over noteIds
FetchOne ==
    /\ pc = "aggregate"
    /\ ~FetchesAll(noteIds)
    /\ idx <= Len(noteIds)
    /\ LET id == noteIds[idx]
           got == GetNoteByID(id)
       IN  /\ notes' = AppendResolved(notes, got)
           /\ trace' = trace \o << Ev("GetNoteByID", id, got.ok) >>
                             \o (IF got.reached THEN << Ev("repo.GetNoteByID", id, got.ok) >>
                                 ELSE << >>)
    /\ idx' = idx + 1
    /\ pc' = IF idx >= Len(noteIds) THEN "fetched" ELSE "aggregate"
    /\ UNCHANGED << via, conversation, noteIds, repo, nextID, prompt, completion, result,
                    now, issued, inferVars, extractVars >>

\* getNotesContent from len(notes) == 0 on, then GenerateQuiz up to the prompt
Aggregate ==
    /\ pc = "fetched"
    /\ IF NoNotes(notes)
       THEN /\ trace' = Append(trace, Ev("getNotesContent", 0, FALSE))
            /\ result' = Failure(<< "failed to retrieve notes", "no notes found" >>)
            /\ prompt' = prompt
            /\ pc' = "done"
       ELSE /\ trace' = Append(trace, Ev("getNotesContent", 0, TRUE))
            /\ result' = result
            /\ prompt' = << BuildPrompt(CombineNotes(notes),
                                        extractDifficulty(conversation[Len(conversation)].Content),
                                        extractQuestionType(conversation[Len(conversation)].Content)) >>
            /\ pc' = "invoke"
    /\ UNCHANGED << via, conversation, noteIds, repo, nextID, notes, idx, completion,
                    now, issued, inferVars, extractVars >>

\* errors the model client can return
ModelErrors == << "provider error", "context deadline exceeded" >>

\* time passes before parseLLMResponse reads the clock
Tick ==
    /\ pc = "invoke"
    /\ now < MaxTicks
    /\ now' = now + 1
    /\ UNCHANGED << pc, via, conversation, noteIds, repo, nextID, notes, idx, trace, prompt,
                    completion, result, issued, inferVars, extractVars >>

\* the identifiers of the notes that resolved, passed on for the caller's
ResolvedNoteIds == [k \in 1..Len(notes) |-> notes[k].ID]

\* GenerateQuiz and generateQuizWithLLM pass the caller's noteIds on to parseLLMResponse
RequestedNoteIds == noteIds

\* generateQuizWithLLM from parseLLMResponse on, and the caller's handling:
\* the events, the caller's result and the identifiers issued
Extract(raw) ==
    LET parsed == parseLLMResponse(raw, RequestedNoteIds, now)
    IN  CASE parsed.outcome = "ok" ->
               [events |-> << Ev("parseLLMResponse", 0, TRUE) >>
                             \o (IF via = "http" THEN << Ev("append", 0, TRUE) >> ELSE << >>),
                result |-> Success(AssistantMessage(parsed.question[1])),
                issued |-> issued \cup { parsed.question[1].ID }]
          [] parsed.outcome = "error" ->
               [events |-> << Ev("parseLLMResponse", 0, FALSE) >>,
                result |-> Failure(<< "failed to generate quiz with LLM",
                                      "failed to parse LLM response" >> \o parsed.err),
                issued |-> issued]
          [] parsed.outcome = "panic" ->
               [events |-> << Ev("panic", 0, FALSE) >>,
                result |-> Panicked(parsed.err),
                issued |-> issued]

\* the model call made again after it failed
InvokeModelRetrying ==
    /\ pc = "invoke"
    /\ \/ \E k \in 1..Len(ModelErrors) :
             /\ trace' = Append(trace, Ev("llm", k, FALSE))
             /\ result' = result
             /\ completion' = completion
             /\ issued' = issued
             /\ pc' = "invoke"
       \/ \E raw \in RawResponses :
             /\ trace' = Append(trace, Ev("llm", 0, TRUE)) \o Extract(raw).events
             /\ result' = Extract(raw).result
             /\ completion' = raw
             /\ issued' = Extract(raw).issued
             /\ pc' = "done"
    /\ UNCHANGED << via, conversation, noteIds, repo, nextID, notes, idx, prompt,
                    now, inferVars, extractVars >>

\* generateQuizWithLLM: llms.GenerateFromSinglePrompt, then parseLLMResponse
\* on the completion
InvokeModel ==
    /\ pc = "invoke"
    /\ \/ \E k \in 1..Len(ModelErrors) :
             /\ trace' = Append(trace, Ev("llm", k, FALSE))
             /\ result' = Failure(<< "failed to generate quiz with LLM", "LLM generation failed",
                                     ModelErrors[k] >>)
             /\ completion' = completion
             /\ issued' = issued
       \/ \E raw \in RawResponses :
             /\ trace' = Append(trace, Ev("llm", 0, TRUE)) \o Extract(raw).events
             /\ result' = Extract(raw).result
             /\ completion' = raw
             /\ issued' = Extract(raw).issued
    /\ pc' = "done"
    /\ UNCHANGED << via, conversation, noteIds, repo, nextID, notes, idx, prompt,
                    now, inferVars, extractVars >>

\* NoteService.CreateNote, served while a quiz request is anywhere: content
\* that is blank after trimming is rejected, else the trimmed content is stored
CreateNote ==
    /\ nextID <= Len(NoteContents)
    /\ \E content \in WriteContents :
          /\ TrimSpace(content) # << >>
          /\ repo' = RepoCreateNote(TrimSpace(content))
          /\ nextID' = nextID + 1
    /\ UNCHANGED << pc, via, conversation, noteIds, notes, idx, trace, prompt, completion,
                    result, now, issued, inferVars, extractVars >>

\* NoteService.UpdateNote: a non-positive identifier, blank content and an
\* identifier that is not stored are rejected, else the content is replaced
UpdateNote ==
    /\ \E id \in StoredIdDomain, content \in WriteContents :
          /\ id > 0
          /\ TrimSpace(content) # << >>
          /\ Stored(id)
          /\ repo' = RepoUpdateNote(id, TrimSpace(content))
    /\ UNCHANGED << pc, via, conversation, noteIds, nextID, notes, idx, trace, prompt,
                    completion, result, now, issued, inferVars, extractVars >>

\* NoteService.DeleteNote: a non-positive identifier and an identifier that is
\* not stored are rejected, else the note is removed
DeleteNote ==
    /\ \E id \in StoredIdDomain :
          /\ id > 0
          /\ Stored(id)
          /\ repo' = RepoDeleteNote(id)
    /\ UNCHANGED << pc, via, conversation, noteIds, nextID, notes, idx, trace, prompt,
                    completion, result, now, issued, inferVars, extractVars >>

\* the call returns: nothing of the request outlives it
Return ==
    /\ pc = "done"
    /\ pc' = "idle"
    /\ via' = "http"
    /\ conversation' = << >>
    /\ noteIds' = << >>
    /\ notes' = << >>
    /\ idx' = 1
    /\ trace' = << >>
    /\ prompt' = << >>
    /\ completion' = << >>
    /\ result' = NoResult
    /\ UNCHANGED << repo, nextID, now, issued, inferVars, extractVars >>

Next ==
    \/ HandlerBadJSON
    \/ HandlerReceive
    \/ DirectCall
    \/ ServiceValidate
    \/ FetchAll
    \/ FetchOne
    \/ Aggregate
    \/ InvokeModel
    \/ Tick
    \/ Return
    \/ CreateNote
    \/ UpdateNote
    \/ DeleteNote

Spec == Init /\ [][Next]_vars

----------------------------------------------------------------------------
(* Parameter inference alone *)

\* pieces of user text: keywords in several spellings, parts of keywords,
\* words with a keyword inside, and text without any
Chunks == {
    << "e","a","s","y" >>,
    << "B","A","S","U+0130","C" >>,
    << "E","a","S","y" >>,
    << "s","i","m","p","l","e" >>,
    << "b","a","s","i","c" >>,
    << "b","e","g","i","n","n","e","r" >>,
    << "h","a","r","d" >>,
    << "H","A","R","D" >>,
    << "d","i","f","f","i","c","u","l","t" >>,
    << "c","h","a","l","l","e","n","g","i","n","g" >>,
    << "a","d","v","a","n","c","e","d" >>,
    << " " >>,
    << "e","a" >>,
    << "s","y" >>,
    << "q","u","i","z" >>,
    << "e","s","s","a","y" >>,
    << "t","r","u","e" >>,
    << "n","o","t","e","s" >>,
    << "k","n","o","w" >>,
    << "Y","e","s" >>,
    << "f","a","l","s","e" >>,
    << "D","i","s","c","u","s","s" >> }

RECURSIVE Concat(_)
Concat(ss) == IF ss = << >> THEN << >> ELSE Head(ss) \o Concat(Tail(ss))

UserTexts == { Concat(ss) : ss \in SeqsUpTo(Chunks, MaxChunks) }

InitInfer ==
    /\ pc = "idle"
    /\ via = "http"
    /\ conversation = << >>
    /\ noteIds = << >>
    /\ repo = << >>
    /\ nextID = 1
    /\ notes = << >>
    /\ idx = 1
    /\ trace = << >>
    /\ prompt = << >>
    /\ completion = << >>
    /\ result = NoResult
    /\ now = 0
    /\ issued = { }
    /\ inferText \in UserTexts
    /\ inferOut = << >>
    /\ extractIn = NoExtractInput
    /\ extractOut = << >>

\* GenerateQuiz, the two inference calls on lastMessage.Content
Infer ==
    /\ inferOut = << >>
    /\ inferOut' = << [difficulty |-> extractDifficulty(inferText),
                       questionType |-> extractQuestionType(inferText)] >>
    /\ UNCHANGED << inferText, pipeVars, extractVars >>

NextInfer == Infer

SpecInfer == InitInfer /\ [][NextInfer]_vars

----------------------------------------------------------------------------
(* Response extraction alone *)

\* well-formed payloads with a non-empty question, each with the values it states
Payloads == {
    [toks |-> << "{", "question:Q?", "}" >>,
     question |-> "Q?", type |-> "", difficulty |-> ""],
    [toks |-> << "{", "question:Q?", ",", "type:essay", ",", "difficulty:hard", "}" >>,
     question |-> "Q?", type |-> "essay", difficulty |-> "hard"],
    [toks |-> << "{", " ", "difficulty:hard", ",", "question:Q?", " ", "}" >>,
     question |-> "Q?", type |-> "", difficulty |-> "hard"],
    [toks |-> << "{", "question:Q?", ",", "type:riddle", ",", "difficulty:extreme", "}" >>,
     question |-> "Q?", type |-> "riddle", difficulty |-> "extreme"],
    [toks |-> << "{", "type:riddle", ",", "question:Q?", ",", "difficulty:hard", "}" >>,
     question |-> "Q?", type |-> "riddle", difficulty |-> "hard"],
    [toks |-> << "{", "question:Q?", ",", "type:essay", ",", "options:[A,B]", "}" >>,
     question |-> "Q?", type |-> "essay", difficulty |-> ""] }

\* pieces of the text around a payload: prose, blanks, braces, a second object
NoiseChunks == { << "x" >>, << " " >>, << "{" >>, << "}" >>,
                 << "{", "type:essay", "}" >> }

NoiseTexts == { Concat(ss) : ss \in SeqsUpTo(NoiseChunks, MaxNoise) }

ExtractIdLists == { << >>, << 2, 0 >> }

\* one response: a payload between a leading and a trailing text, and the noteIds
ExtractInput(l, p, t, ids) ==
    [lead |-> l, payload |-> p.toks, trail |-> t, ids |-> ids,
     question |-> p.question, type |-> p.type, difficulty |-> p.difficulty]

InitExtract ==
    /\ pc = "idle"
    /\ via = "http"
    /\ conversation = << >>
    /\ noteIds = << >>
    /\ repo = << >>
    /\ nextID = 1
    /\ notes = << >>
    /\ idx = 1
    /\ trace = << >>
    /\ prompt = << >>
    /\ completion = << >>
    /\ result = NoResult
    /\ now = 0
    /\ issued = { }
    /\ inferText = << >>
    /\ inferOut = << >>
    /\ \E l \in NoiseTexts, p \in Payloads, t \in NoiseTexts, ids \in ExtractIdLists :
          extractIn = ExtractInput(l, p, t, ids)
    /\ extractOut = << >>

\* generateQuizWithLLM, the call parseLLMResponse(completion, noteIds)
ExtractApply ==
    /\ extractOut = << >>
    /\ extractOut' = << parseLLMResponse(extractIn.lead \o extractIn.payload \o extractIn.trail,
                                         extractIn.ids, now) >>
    /\ UNCHANGED << extractIn, pipeVars, inferVars >>

NextExtract == ExtractApply

SpecExtract == InitExtract /\ [][NextExtract]_vars

----------------------------------------------------------------------------
(* Vocabulary of the properties *)

Has(err, text) == \E k \in 1..Len(err) : err[k] = text

IsInvalidConversation(err) ==
    \/ Has(err, "conversation cannot be empty")
    \/ Has(err, "last message must be from user")
    \/ Has(err, "user message cannot be empty")

IsNoContentFound(err) == Has(err, "no notes found")

IsModelCallFailed(err) == Has(err, "LLM generation failed")

IsMalformedResponse(err) ==
    Has(err, "no valid JSON found in response") \/ Has(err, "failed to parse JSON")

IsMissingRequiredField(err) == Has(err, "question field is required")

Happened(name) == \E k \in 1..Len(trace) : trace[k].ev = name

HappenedWith(name, ok) == \E k \in 1..Len(trace) : trace[k].ev = name /\ trace[k].ok = ok

Count(name) == Len(SelectSeq(trace, LAMBDA e : e.ev = name))

\* the identifiers of the events of one kind, in order
IdsOf(name) ==
    LET es == SelectSeq(trace, LAMBDA e : e.ev = name)
    IN  [k \in 1..Len(es) |-> es[k].id]

NoteFetchEvents == { "GetAllNotes", "GetNoteByID", "repo.GetAllNotes", "repo.GetNoteByID" }

NoCollaboratorContacted ==
    \A k \in 1..Len(trace) : trace[k].ev \notin NoteFetchEvents \cup { "llm" }

\* a request whose body was decoded is in flight or has just been answered
Decoded == pc # "idle" /\ ~HappenedWith("Decode", FALSE)

IsWhitespace(c) == c \in WhiteSpace

\* the text is empty once leading and trailing whitespace is cut
EmptyAfterTrim(text) == \A k \in 1..Len(text) : IsWhitespace(text[k])

LastTurn == conversation[Len(conversation)]

----------------------------------------------------------------------------
(* C1 *)

\* C1: a decoded request whose conversation is empty, or whose last turn is
\* not a user turn, never gets past validation: no note fetch and no model
\* call happens for it, and it ends in an InvalidConversation error.
C1_InvalidShapeRejected ==
    (Decoded /\ (Len(conversation) = 0 \/ LastTurn.Role # "user"))
        => /\ NoCollaboratorContacted
           /\ pc \in { "service", "done" }
           /\ pc = "done" => /\ result.status = "error"
                             /\ IsInvalidConversation(result.err)
                             /\ result.message = << >>

\* a direct call with an assistant turn last was rejected by the service
C1_Witness ==
    /\ pc = "done"
    /\ via = "direct"
    /\ Len(conversation) = 2
    /\ LastTurn.Role = "assistant"
    /\ result.err = << "last message must be from user" >>

----------------------------------------------------------------------------
(* C2 *)

\* C2: a decoded request whose last turn is a user turn with content that is
\* empty after trimming whitespace never gets past validation: no note fetch
\* and no model call happens for it, and it ends in InvalidConversation.
C2_BlankContentRejected ==
    (Decoded /\ Len(conversation) > 0 /\ LastTurn.Role = "user"
             /\ EmptyAfterTrim(LastTurn.Content))
        => /\ NoCollaboratorContacted
           /\ pc = "done" => /\ result.status = "error"
                             /\ IsInvalidConversation(result.err)

----------------------------------------------------------------------------
(* C3 *)

\* no "{" stands before a "}"
NoPayloadRegion(raw) ==
    ~\E i, j \in 1..Len(raw) : i < j /\ raw[i] = "{" /\ raw[j] = "}"

\* C3: once extraction has run on a completion in which no "{" stands before
\* a "}", the outcome is a MalformedResponse error: no crash, no record.
C3_NoRegionIsMalformed ==
    (pc = "done" /\ HappenedWith("llm", TRUE) /\ NoPayloadRegion(completion))
        => /\ result.status = "error"
           /\ IsMalformedResponse(result.err)
           /\ result.message = << >>

----------------------------------------------------------------------------
(* C4 *)

\* a step in which a generation succeeds and its question record is produced
Generates == pc = "invoke" /\ pc' = "done" /\ result'.status = "ok"

\* C4: the question record a generation produces has an identifier that no
\* question record produced before it has, so any two identifiers differ.
C4_IdentifiersDiffer ==
    [][Generates => result'.message[1].Question[1].ID \notin issued]_vars

\* a later second gave the second generation a new identifier
C4_WitnessLaterSecond ==
    /\ pc = "done"
    /\ result.status = "ok"
    /\ issued = { questionID(0), questionID(TicksPerSecond) }

----------------------------------------------------------------------------
(* C5 *)

StageFailures == { "Decode", "validateQuizRequest", "GenerateQuiz", "GetAllNotes",
                   "getNotesContent", "llm", "parseLLMResponse", "panic" }

StageFailed == \E k \in 1..Len(trace) : trace[k].ev \in StageFailures /\ ~trace[k].ok

\* C5: once a stage has failed, the call has ended in an error, no assistant
\* turn was produced or appended, and no conversation is returned.
C5_FailureAborts ==
    StageFailed
        => /\ pc = "done"
           /\ result.status = "error"
           /\ result.err # << >>
           /\ result.message = << >>
           /\ result.conversation = << >>
           /\ ~Happened("append")

----------------------------------------------------------------------------
(* C6 *)

\* C6: a successful generation through the handler returns the input
\* conversation, turn for turn, followed by exactly one assistant turn with
\* the introductory label and the extracted question record.
C6_AppendsOneTurn ==
    (pc = "done" /\ via = "http" /\ result.status = "ok")
        => /\ Len(result.conversation) = Len(conversation) + 1
           /\ \A k \in 1..Len(conversation) : result.conversation[k] = conversation[k]
           /\ LET last == result.conversation[Len(result.conversation)]
              IN  /\ last.Role = "assistant"
                  /\ last.Content = IntroLabel
                  /\ last.Question = parseLLMResponse(completion, noteIds, now).question
                  /\ Len(last.Question) = 1
                  /\ result.message = << last >>

\* a two-turn conversation was extended to three turns
C6_Witness ==
    /\ pc = "done"
    /\ via = "http"
    /\ result.status = "ok"
    /\ Len(conversation) = 2
    /\ Len(result.conversation) = 3
    /\ result.conversation[3].Question[1].Text = "Q?"

----------------------------------------------------------------------------
(* C7 *)

\* an identifier the note service can resolve now: positive and stored
Resolvable(id) == id > 0 /\ \E k \in 1..Len(repo) : repo[k].ID = id

NoteIdsOf(ns) == [k \in 1..Len(ns) |-> ns[k].ID]

\* the identifiers the loop over noteIds has handled so far
Handled == SubSeq(noteIds, 1, idx - 1)

\* the per-identifier fetches made so far, in order
Fetches == SelectSeq(trace, LAMBDA e : e.ev = "GetNoteByID")

\* the identifiers that fetched successfully, in order
FetchedOk ==
    LET es == SelectSeq(Fetches, LAMBDA e : e.ok)
    IN  [k \in 1..Len(es) |-> es[k].id]

InLoop == pc \in { "aggregate", "fetched", "invoke", "done" }
              /\ HappenedWith("GenerateQuiz", TRUE) /\ Len(noteIds) > 0

\* one turn of the loop over noteIds
LoopTurn == pc = "aggregate" /\ Len(noteIds) > 0 /\ idx' = idx + 1

\* the note stored under id when the turn is made
StoredNote(id) == repo[CHOOSE k \in 1..Len(repo) : repo[k].ID = id]

\* C7: for a non-empty noteIds, every identifier handled so far was fetched
\* once whatever the earlier fetches gave, the resolved notes are the
\* identifiers that fetched successfully in input order with duplicates,
\* non-positive identifiers fail without reaching the repository, once the
\* loop is over aggregation has failed only if nothing resolved, and each
\* turn of the loop appends the note stored at that moment or, when the
\* identifier does not resolve then, leaves the notes as they are.
C7_FailedFetchSkipped ==
    /\ [](InLoop
            => /\ IdsOf("GetNoteByID") = Handled
               /\ NoteIdsOf(notes) = FetchedOk
               /\ IdsOf("repo.GetNoteByID") = SelectSeq(Handled, LAMBDA id : id > 0)
               /\ \A k \in 1..Len(Fetches) : Fetches[k].id <= 0 => ~Fetches[k].ok
               /\ pc = "aggregate" => result.status = "none"
               /\ pc # "aggregate" => idx = Len(noteIds) + 1
               /\ (pc # "aggregate" /\ Len(notes) > 0)
                     => ~HappenedWith("getNotesContent", FALSE))
    /\ [][LoopTurn
            => notes' = IF Resolvable(noteIds[idx])
                        THEN Append(notes, StoredNote(noteIds[idx]))
                        ELSE notes]_vars

\* a failed fetch came first, a note resolved after it, and aggregation went on
C7_Witness ==
    /\ pc = "invoke"
    /\ Len(noteIds) = 2
    /\ Len(Fetches) = 2
    /\ ~Fetches[1].ok
    /\ Fetches[2].ok
    /\ NoteIdsOf(notes) = << noteIds[2] >>
    /\ HappenedWith("getNotesContent", TRUE)

\* two stored notes listed oldest first are resolved in the listed order
C7_WitnessOrder ==
    /\ pc = "invoke"
    /\ noteIds = << 1, 2 >>
    /\ NoteIdsOf(notes) = << 1, 2 >>
    /\ NoteIdsOf(repo) = << 2, 1 >>

\* the same identifier listed twice resolved once: the note was deleted
\* between the two fetches
C7_WitnessDeleted ==
    /\ pc = "invoke"
    /\ noteIds = << 1, 1 >>
    /\ Fetches = << Ev("GetNoteByID", 1, TRUE), Ev("GetNoteByID", 1, FALSE) >>
    /\ NoteIdsOf(notes) = << 1 >>
    /\ ~Resolvable(1)

----------------------------------------------------------------------------
(* C8 *)

\* every listed identifier was fetched and none resolved
NoneResolved ==
    /\ Len(noteIds) > 0
    /\ Len(Fetches) = Len(noteIds)
    /\ \A k \in 1..Len(Fetches) : ~Fetches[k].ok

\* all notes were asked for and the repository returned none
NoneStored ==
    /\ Len(noteIds) = 0
    /\ HappenedWith("repo.GetAllNotes", TRUE)
    /\ notes = << >>

\* C8: a call that passed validation and ended, with noteIds non-empty and
\* no identifier resolved, or with noteIds empty and a fetch-all that
\* returned no notes, ended in NoContentFound without a model call; and a
\* fetch-all returns no notes exactly when the repository holds none then.
C8_NoNotesNoContent ==
    /\ []((pc = "done" /\ HappenedWith("GenerateQuiz", TRUE) /\ (NoneResolved \/ NoneStored))
            => /\ result.status = "error"
               /\ IsNoContentFound(result.err)
               /\ ~Happened("llm"))
    /\ [][(pc = "aggregate" /\ pc' = "fetched" /\ Len(noteIds) = 0)
            => (notes' = << >> <=> repo = << >>)]_vars

\* all listed identifiers failed to resolve
C8_Witness ==
    /\ pc = "done"
    /\ Len(noteIds) = 2
    /\ NoneResolved
    /\ IsNoContentFound(result.err)

\* the repository was empty when all notes were asked for
C8_WitnessEmptyRepo ==
    /\ pc = "done"
    /\ NoneStored
    /\ IsNoContentFound(result.err)

----------------------------------------------------------------------------
(* C9 *)

Fetched == pc \in { "fetched", "invoke" } \/ (pc = "done" /\ Happened("getNotesContent"))

\* C9: with noteIds empty there is never a per-identifier fetch, once
\* fetching is over there was one fetch-all, the notes it returned are the
\* repository's at that moment in its order, and the prompt uses every one
\* of them in that order; with noteIds non-empty there is never a
\* fetch-all, and once fetching is over each listed identifier was fetched
\* exactly once, in order.
C9_FetchBranch ==
    /\ [](/\ Len(noteIds) = 0 =>
                /\ Count("GetNoteByID") = 0
                /\ Count("GetAllNotes") <= 1
                /\ Fetched => Count("GetAllNotes") = 1
                /\ prompt # << >> => prompt[1].notes = CombineNotes(notes)
          /\ Len(noteIds) > 0 =>
                /\ Count("GetAllNotes") = 0
                /\ Count("repo.GetAllNotes") = 0
                /\ Fetched => IdsOf("GetNoteByID") = noteIds)
    /\ [][(pc = "aggregate" /\ pc' = "fetched" /\ Len(noteIds) = 0) => notes' = repo]_vars

\* all notes were used, newest first
C9_Witness ==
    /\ pc = "invoke"
    /\ Len(noteIds) = 0
    /\ Len(notes) = 2
    /\ notes[1].ID > notes[2].ID
    /\ Count("GetAllNotes") = 1
    /\ prompt[1].notes = CombineNotes(notes)

\* one listed identifier (duplicated) was fetched twice, once per listing
C9_WitnessListed ==
    /\ pc = "invoke"
    /\ Len(noteIds) = 2
    /\ noteIds[1] = noteIds[2]
    /\ IdsOf("GetNoteByID") = noteIds
    /\ Count("GetAllNotes") = 0

----------------
(* C10 *)

\* a capital letter beside its small letter
CasePairs ==
    { << UpperChars[k], LowerChars[k] >> : k \in 1..Len(UpperChars) }
        \cup { << UnicodeUpper[k], UnicodeLower[k] >> : k \in 1..Len(UnicodeUpper) }

SameLetter(a, b) ==
    \/ a = b
    \/ << a, b >> \in CasePairs
    \/ << b, a >> \in CasePairs

\* word occurs in text at some position, letter case aside
OccursIn(text, word) ==
    \E i \in 0..(Len(text) - Len(word)) :
        \A j \in 1..Len(word) : SameLetter(text[i + j], word[j])

EasyWords == { EasyKeywords[k] : k \in 1..Len(EasyKeywords) }
HardWords == { HardKeywords[k] : k \in 1..Len(HardKeywords) }

MentionsEasy(text) == \E w \in EasyWords : OccursIn(text, w)
MentionsHard(text) == \E w \in HardWords : OccursIn(text, w)

\* C10: the inferred difficulty is easy when the text mentions an easy
\* keyword in any letter case, else hard when it mentions a hard keyword,
\* else medium; a text mentioning both infers easy.
C10_DifficultyInference ==
    inferOut # << >>
        => inferOut[1].difficulty =
              (IF MentionsEasy(inferText) THEN "easy"
               ELSE IF MentionsHard(inferText) THEN "hard"
               ELSE "medium")

\* a text with a hard keyword first and an easy keyword after it inferred easy
C10_Witness ==
    /\ inferOut # << >>
    /\ inferText = << "H","A","R","D","E","a","S","y" >>
    /\ inferOut[1].difficulty = "easy"

\* a capital outside ASCII whose lower case is an ASCII letter completes a keyword
C10_WitnessDotted ==
    /\ inferOut # << >>
    /\ inferText = << "B","A","S","U+0130","C" >>
    /\ inferOut[1].difficulty = "easy"

----------------------------------------------------------------------------
(* C11 *)

EssayWords == { EssayKeywords[k] : k \in 1..Len(EssayKeywords) }
TrueFalseWords == { TrueFalseKeywords[k] : k \in 1..Len(TrueFalseKeywords) }

MentionsEssay(text) == \E w \in EssayWords : OccursIn(text, w)
MentionsTrueFalse(text) == \E w \in TrueFalseWords : OccursIn(text, w)

\* C11: the inferred question type is essay when the text mentions an essay
\* keyword in any letter case, else true-false when a true/false keyword
\* occurs anywhere in it, inside a longer word too, else multiple-choice.
C11_QuestionTypeInference ==
    inferOut # << >>
        => inferOut[1].questionType =
              (IF MentionsEssay(inferText) THEN "essay"
               ELSE IF MentionsTrueFalse(inferText) THEN "true-false"
               ELSE "multiple-choice")

\* a text with a true/false keyword first and an essay keyword after it inferred essay
C11_Witness ==
    /\ inferOut # << >>
    /\ inferText = << "t","r","u","e","e","s","s","a","y" >>
    /\ inferOut[1].questionType = "essay"

\* "no" inside "notes" and inside "know" inferred true-false
C11_WitnessInsideWord ==
    /\ inferOut # << >>
    /\ inferText = << "n","o","t","e","s","k","n","o","w" >>
    /\ inferOut[1].questionType = "true-false"

----------------------------------------------------------------------------
(* C12 *)

ExtractedPayloadValues ==
    /\ extractOut[1].outcome = "ok"
    /\ Len(extractOut[1].question) = 1
    /\ extractOut[1].question[1].Text = extractIn.question
    /\ extractOut[1].question[1].Type = extractIn.type
    /\ extractOut[1].question[1].Difficulty = extractIn.difficulty

BraceFree(text, brace) == \A k \in 1..Len(text) : text[k] # brace

\* C12 as stated: whatever text surrounds the well-formed payload, extraction
\* returns a record with the payload's question, type and difficulty.
C12_AnySurroundingText ==
    extractOut # << >> => ExtractedPayloadValues

\* C12 amended: when the text before the payload holds no "{" and the text
\* after it holds no "}", extraction returns a record with the payload's
\* question, type and difficulty.
C12_PayloadBetweenOuterBraces ==
    (extractOut # << >> /\ BraceFree(extractIn.lead, "{") /\ BraceFree(extractIn.trail, "}"))
        => ExtractedPayloadValues

\* a "}" before the payload and a "{" after it did not disturb the extraction
C12_Witness ==
    /\ extractOut # << >>
    /\ extractIn.lead = << "x", "}" >>
    /\ extractIn.trail = << "{", "x" >>
    /\ extractIn.type = "essay"
    /\ ExtractedPayloadValues

----------------------------------------------------------------------------
(* C13 *)

\* the completion has a region from its first "{" to its last "}"
HasRegion(raw) ==
    Index(raw, "{") # -1 /\ LastIndex(raw, "}") # -1 /\ Index(raw, "{") <= LastIndex(raw, "}") + 1

Region(raw) == SubSeq(raw, Index(raw, "{") + 1, LastIndex(raw, "}") + 1)

\* the completion decodes, and its question field is absent or empty
DecodesWithoutQuestion(raw) ==
    /\ HasRegion(raw)
    /\ Unmarshal(Region(raw)).ok
    /\ Unmarshal(Region(raw)).Question = ""

TurnsReturned == result.message \o result.conversation

\* C13: a call whose completion decodes with the question field absent or
\* empty ends in MissingRequiredField, and every question record attached to
\* a returned turn has non-empty text.
C13_QuestionRequired ==
    /\ (pc = "done" /\ HappenedWith("llm", TRUE) /\ DecodesWithoutQuestion(completion))
          => /\ result.status = "error"
             /\ IsMissingRequiredField(result.err)
             /\ result.message = << >>
    /\ \A k \in 1..Len(TurnsReturned) :
          \A q \in 1..Len(TurnsReturned[k].Question) : TurnsReturned[k].Question[q].Text # ""

\* a payload without a question member was refused
C13_Witness ==
    /\ pc = "done"
    /\ completion = << "{", "type:essay", "}" >>
    /\ IsMissingRequiredField(result.err)

\* a payload whose question is the empty string was refused
C13_WitnessEmpty ==
    /\ pc = "done"
    /\ completion = << "{", "question:", "}" >>
    /\ IsMissingRequiredField(result.err)

----------------------------------------------------------------------------
(* C14 *)

\* C14: the question record of a successful generation has as basedOnNotes
\* the caller's noteIds, element for element.
C14_BasedOnRequestedIds ==
    (pc = "done" /\ result.status = "ok")
        => /\ Len(result.message) = 1
           /\ Len(result.message[1].Question) = 1
           /\ result.message[1].Question[1].BasedOnNotes = noteIds

\* one of the two requested identifiers did not resolve and is recorded all the same
C14_Witness ==
    /\ pc = "done"
    /\ result.status = "ok"
    /\ noteIds = << 0, 1 >>
    /\ NoteIdsOf(notes) = << 1 >>
    /\ result.message[1].Question[1].BasedOnNotes = << 0, 1 >>

\* all notes were used and basedOnNotes is empty
C14_WitnessAllNotes ==
    /\ pc = "done"
    /\ result.status = "ok"
    /\ noteIds = << >>
    /\ Len(notes) = 2
    /\ result.message[1].Question[1].BasedOnNotes = << >>

----------------------------------------------------------------------------
(* C15 *)

\* C15: the question record of a successful generation carries options only
\* when its type is multiple-choice: an essay or true-false record has none.
C15_OptionsOnlyForMultipleChoice ==
    (pc = "done" /\ result.status = "ok")
        => LET q == result.message[1].Question[1]
           IN  q.Type \in { "essay", "true-false" } => q.Options = << >>

----------------------------------------------------------------------------
(* C16 *)

\* C16: extraction never rewrites the payload's type or difficulty (a record
\* that is returned carries exactly the payload's two strings, inside the
\* enumerated values or not), and never rejects a payload for them (with no
\* "{" before the payload and no "}" after it, extraction succeeds).
C16_TypeAndDifficultyPassThrough ==
    extractOut # << >>
        => /\ extractOut[1].outcome = "ok"
                => /\ extractOut[1].question[1].Type = extractIn.type
                   /\ extractOut[1].question[1].Difficulty = extractIn.difficulty
           /\ (BraceFree(extractIn.lead, "{") /\ BraceFree(extractIn.trail, "}"))
                => extractOut[1].outcome = "ok"

\* a type and a difficulty outside the enumerated values came through
C16_Witness ==
    /\ extractOut # << >>
    /\ extractIn.type = "riddle"
    /\ extractIn.difficulty = "extreme"
    /\ extractOut[1].outcome = "ok"
    /\ extractOut[1].question[1].Type = "riddle"
    /\ extractOut[1].question[1].Difficulty = "extreme"

----------------------------------------------------------------------------
(* C17 *)

LlmEvents == SelectSeq(trace, LAMBDA e : e.ev = "llm")

\* C17: a call invokes the model at most once; when the invocation failed
\* the call has ended in ModelCallFailed with the model's error as its cause,
\* and when extraction failed the call has ended, after that one invocation.
C17_ModelInvokedAtMostOnce ==
    /\ Len(LlmEvents) <= 1
    /\ HappenedWith("llm", FALSE)
          => /\ pc = "done"
             /\ result.status = "error"
             /\ IsModelCallFailed(result.err)
             /\ result.err[Len(result.err)] = ModelErrors[LlmEvents[1].id]
             /\ ~Happened("parseLLMResponse")
    /\ (HappenedWith("parseLLMResponse", FALSE) \/ Happened("panic"))
          => /\ pc = "done"
             /\ Len(LlmEvents) = 1
             /\ trace[Len(trace) - 1].ev = "llm"

\* the model call failed on a deadline and the call ended with that cause
C17_Witness ==
    /\ pc = "done"
    /\ via = "http"
    /\ Count("llm") = 1
    /\ HappenedWith("llm", FALSE)
    /\ result.err = << "Failed to generate quiz", "failed to generate quiz with LLM",
                       "LLM generation failed", "context deadline exceeded" >>

\* extraction failed and the model was not asked again
C17_WitnessExtraction ==
    /\ pc = "done"
    /\ HappenedWith("parseLLMResponse", FALSE)
    /\ IsMalformedResponse(result.err)
    /\ Count("llm") = 1

----------------------------------------------------------------------------
(* C18 *)

\* an event of this name and outcome stands before position k of the trace
Before(k, name, ok) == \E i \in 1..(k - 1) : trace[i].ev = name /\ trace[i].ok = ok

\* C18: the stages of a call run in a fixed order: notes are fetched only
\* after the service's validation passed, the model is invoked only after
\* validation passed and aggregation ended with at least one note, no note
\* is fetched after the model was invoked, and extraction starts only once
\* the model has returned a completion.
C18_StageOrder ==
    /\ \A k \in 1..Len(trace) :
          /\ trace[k].ev \in NoteFetchEvents \cup { "getNotesContent" }
                => /\ Before(k, "GenerateQuiz", TRUE)
                   /\ ~\E i \in 1..(k - 1) : trace[i].ev = "llm"
          /\ trace[k].ev = "llm"
                => /\ Before(k, "GenerateQuiz", TRUE)
                   /\ trace[k - 1] = Ev("getNotesContent", 0, TRUE)
                   /\ Len(notes) >= 1
          /\ trace[k].ev \in { "parseLLMResponse", "panic" }
                => /\ trace[k - 1] = Ev("llm", 0, TRUE)
                   /\ completion # << >>
          /\ trace[k].ev = "GenerateQuiz" /\ via = "http"
                => Before(k, "validateQuizRequest", TRUE)
    /\ pc = "invoke" => (HappenedWith("getNotesContent", TRUE) /\ prompt # << >>)

\* a whole call: validation, two fetches, aggregation, model, extraction, append
C18_Witness ==
    /\ pc = "done"
    /\ result.status = "ok"
    /\ Len(noteIds) = 2
    /\ [k \in 1..Len(trace) |-> trace[k].ev] =
          << "Decode", "validateQuizRequest", "GenerateQuiz",
             "GetNoteByID", "repo.GetNoteByID", "GetNoteByID", "repo.GetNoteByID",
             "getNotesContent", "llm", "parseLLMResponse", "append" >>

----------------------------------------------------------------------------
(* C19 *)

\* the request does not pass the handler's validation
FailsValidation ==
    \/ Len(conversation) = 0
    \/ LastTurn.Role # "user"
    \/ LastTurn.Content = << >>

ServiceCalled == Happened("GenerateQuiz")

\* C19: at the HTTP boundary an undecodable request and a request that fails
\* validation are answered with 400 without the service being called, an
\* error returned by the service is answered with 500 and success false, and
\* 200 with a conversation is sent only for a message returned without error.
C19_StatusCodes ==
    (via = "http" /\ pc # "idle")
        => /\ (HappenedWith("Decode", FALSE) \/ FailsValidation)
                => /\ pc = "done"
                   /\ result.http = 400
                   /\ ~result.success
                   /\ ~ServiceCalled
           /\ (pc = "done" /\ ServiceCalled /\ result.status = "error")
                => /\ result.http = 500
                   /\ ~result.success
                   /\ result.err[1] = "Failed to generate quiz"
                   /\ result.conversation = << >>
           /\ result.http = 200
                => /\ pc = "done"
                   /\ result.success
                   /\ result.status = "ok"
                   /\ HappenedWith("parseLLMResponse", TRUE)
                   /\ ~StageFailed
                   /\ Len(result.conversation) = Len(conversation) + 1
           /\ result.http \in { 0, 200, 400, 500 }
           /\ result.http = 0 => (pc # "done" \/ result.status = "panic")

\* the service failed on the notes and the handler answered 500
C19_Witness ==
    /\ via = "http"
    /\ pc = "done"
    /\ result.http = 500
    /\ ~result.success
    /\ IsNoContentFound(result.err)

\* a request with an empty user message was answered 400 before the service
C19_WitnessBadRequest ==
    /\ via = "http"
    /\ pc = "done"
    /\ Len(conversation) = 2
    /\ LastTurn = Msg("user", EmptyText)
    /\ result.http = 400
    /\ trace = << Ev("Decode", 0, TRUE), Ev("validateQuizRequest", 0, FALSE) >>

\* a generation succeeded and was answered 200
C19_WitnessOk ==
    /\ via = "http"
    /\ pc = "done"
    /\ result.http = 200
    /\ result.success
    /\ Len(result.conversation) = 2

====
